---- MODULE Spec2Model ----
(***************************************************************************)
(* Verification model of the dYdX v4 streaming client:                     *)
(*   - SocketHandler  (src/src/orderbookHandler.ts, lines 289-545): the    *)
(*     connection manager: connect, subscribe, heartbeat, rotation,        *)
(*     close handling and reconnect with exponential backoff;              *)
(*   - AccountHandler (src/unnamed/part_000, lines 509-934): the account   *)
(*     view: open orders, fill ledger, position, collateral.               *)
(* One JavaScript macrotask (an event callback run up to its next real     *)
(* suspension on network or timer I/O) is one action.                      *)
(***************************************************************************)
EXTENDS Integers, Sequences, FiniteSets, Bags, TLC

(***************************************************************************)
(* Bounds of the model.                                                    *)
(***************************************************************************)
MaxRuns == 2            \* calls of the public run() that are explored
NumSubscriptions == 2   \* length of the configured subscription list
MaxDeliveries == 2      \* account messages handed to the callback
MaxViewSteps == 3       \* operations on the order book and the markets view
MaxOps == 2             \* messages handled when the three views run side by side
MaxFolds == 3           \* single fills folded into a prepared ledger

(***************************************************************************)
(* Program constants.                                                      *)
(***************************************************************************)
maxReconnectAttempts == 10
OrderbookLength == 20

VARIABLES
    ws,                    \* SocketHandler.ws: the current handle (readyState "NULL" = null)
    detached,              \* handles dropped by closeExistingConnection while not CLOSED
    reconnectAttempts,     \* SocketHandler.reconnectAttempts
    closers,               \* bag of suspended handleWebSocketClose/onClose/attemptReconnect calls
    pingInterval,          \* SocketHandler.pingInterval: "null", "ws" (bound to ws) or "old"
    reconnectTimeout,      \* SocketHandler.reconnectTimeout: "null", "armed" or "fired"
    onDisconnectCallback,  \* SocketHandler.onDisconnectCallback is set
    runs,                  \* number of run() calls so far
    fatalReported,         \* 'Max reconnection attempts reached.' has been sent
    indexerClient,         \* AccountHandler.indexerClient is set
    acct,                  \* AccountHandler: openOrders, filledOrders, perpetualPosition,
                           \*   assetPosition, longTermFill, position
    calls,                 \* suspended AccountHandler.handler calls
    delivered,             \* number of account messages handed to the callback
    candle,                \* price source: the latest daily candle's close, if any
    history,               \* historical-fills source: what getSubaccountFills returns
    outcome,               \* how the handler call that ended last ended
    seqView,               \* the view that handling one message at a time gives
    cleaned,               \* cleanupAccount has run
    audit,                 \* the last account operation, the view before it, and the
                           \*   status each order was last reported in
    orderbook,             \* OrderbookHandler.orderbook
    tradeData,             \* MarketsHandler.tradeData
    viewOp,                \* the last operation on the order book or the markets view
    viewBefore,            \* orderbook and tradeData before that operation
    viewSteps,             \* number of operations on these two views so far
    feedBook               \* per symbol: the full book that the feed's messages describe,
                           \*   and whether the ladder stems from a snapshot and diffs only

sockVars == <<ws, detached, reconnectAttempts, closers, pingInterval,
              reconnectTimeout, onDisconnectCallback, runs, fatalReported>>

acctVars == <<indexerClient, acct, calls, delivered, candle, history, outcome,
              seqView, cleaned, audit>>

viewVars == <<orderbook, tradeData, viewOp, viewBefore, viewSteps, feedBook>>

vars == <<sockVars, acctVars, viewVars>>

----------------------------------------------------------------------------
(***************************************************************************)
(* SocketHandler                                                           *)
(***************************************************************************)

\* SocketHandler.subscriptions: the configured channels.
subscriptions == 1..NumSubscriptions

\* No frame sent yet, for any channel.
NoFrames == [ch \in subscriptions |-> 0]

\* The WebSocket object: readyState, who awaits the promise of setupWebSocket
\* ("run" or "reconnect"), the number of subscribe frames sent on it for each
\* channel, and the steps of the close handler that created it (empty for
\* run()).
NoWs == [readyState |-> "NULL", by |-> "none", frames |-> NoFrames, trail |-> <<>>]

NewWs(by, trail) ==
    [readyState |-> "CONNECTING", by |-> by, frames |-> NoFrames, trail |-> trail]

\* subscribeToChannels: one ws.send per configured channel, in order.
subscribeToChannelsFirstOpenOnly(w, channels) ==
    IF w.by = "run"
    THEN [ch \in DOMAIN w.frames |-> w.frames[ch] + (IF ch \in channels THEN 1 ELSE 0)]
    ELSE w.frames
subscribeToChannels(w, channels) ==
    [ch \in DOMAIN w.frames |-> w.frames[ch] + (IF ch \in channels THEN 1 ELSE 0)]

\* startDisconnectTimer: a pending timer is cleared and a new one is armed.
startDisconnectTimer(timeout) == "armed"

\* startPingInterval(ws): a running interval is cleared and a new one, bound
\* to the handle that opened, is started.
startPingInterval(interval) == "ws"

\* clearIntervals: both timers are cleared and their fields set to null.
clearIntervalsPingOnly(interval, timeout) ==
    [pingInterval |-> "null", reconnectTimeout |-> timeout]
clearIntervals(interval, timeout) ==
    [pingInterval |-> "null", reconnectTimeout |-> "null"]

\* The close handlers left once this.ws is dropped: none of them handles the
\* close of the current handle any more.
Dropped(handlers) ==
    LET old(c) == [c EXCEPT !.cur = FALSE]
        R == {old(c) : c \in BagToSet(handlers)}
    IN  [r \in R |-> CopiesIn(r, handlers) + CopiesIn([r EXCEPT !.cur = TRUE], handlers)]

NoDetached == [connecting |-> 0, open |-> 0, closing |-> 0]

\* Math.pow(2, n) for a natural n.
RECURSIVE Pow(_, _)
Pow(b, n) == IF n = 0 THEN 1 ELSE b * Pow(b, n - 1)

\* attemptReconnect, line 411: the backoff in milliseconds.
reconnectDelayOff(attempts) == 2 * attempts * 1000
reconnectDelay(attempts) == Pow(2, attempts) * 1000

\* sendDisconnectCallback: the steps it adds to the close handler's trail.
\* The callback is external code: it returns or throws.
sendDisconnectCallbackSkip(cbSet, throws) == <<"nocallback">>
sendDisconnectCallback(cbSet, throws) ==
    IF cbSet
    THEN IF throws THEN <<"hook", "threw">> ELSE <<"hook">>
    ELSE <<"nocallback">>

\* closeExistingConnection: the handles left behind once this.ws is dropped.
\* Only an OPEN handle is closed; listeners are removed in every state.
closeExistingConnection(w, det) ==
    CASE w.readyState = "OPEN"       -> [det EXCEPT !.closing = @ + 1]
      [] w.readyState = "CONNECTING" -> [det EXCEPT !.connecting = @ + 1]
      [] w.readyState = "CLOSING"    -> [det EXCEPT !.closing = @ + 1]
      [] OTHER                       -> det

\* connect(): closeExistingConnection, new WebSocket, setupWebSocket.
\* A ping interval bound to the dropped handle keeps running on it.
connect(by, trail) ==
    /\ detached' = closeExistingConnection(ws, detached)
    /\ ws' = NewWs(by, trail)
    /\ pingInterval' = IF pingInterval = "null" THEN "null" ELSE "old"

\* onDisconnect(callback)
OnDisconnect ==
    /\ ~onDisconnectCallback
    /\ onDisconnectCallback' = TRUE
    /\ UNCHANGED <<viewVars, acctVars, ws, detached, reconnectAttempts, closers, pingInterval,
                   reconnectTimeout, runs, fatalReported>>

\* run(): connect(); a rejection is only reported.
Run ==
    /\ runs < MaxRuns
    /\ runs' = runs + 1
    /\ connect("run", <<>>)
    /\ closers' = Dropped(closers)
    /\ UNCHANGED <<viewVars, acctVars, reconnectAttempts, reconnectTimeout,
                   onDisconnectCallback, fatalReported>>

\* The 'open' event of the current handle: onWebSocketOpen (subscribeToChannels,
\* startDisconnectTimer, startPingInterval), then resolve(ws); the continuation
\* of attemptReconnect resets the counter, the continuation of run() does not.
WsOpen ==
    /\ ws.readyState = "CONNECTING"
    /\ ws' = [ws EXCEPT !.readyState = "OPEN",
                        !.frames = subscribeToChannels(ws, subscriptions)]
    /\ reconnectTimeout' = startDisconnectTimer(reconnectTimeout)
    /\ pingInterval' = startPingInterval(pingInterval)
    /\ reconnectAttempts' = IF ws.by = "reconnect" THEN 0 ELSE reconnectAttempts
    /\ UNCHANGED <<viewVars, acctVars, detached, closers, onDisconnectCallback, runs, fatalReported>>

\* handleWebSocketClose up to its first suspension: sendDisconnectCallback,
\* then onClose() up to `await sendDiscordNotification`.  A throwing callback
\* ends the handler in its catch block (lines 520-522).
handleWebSocketClose(cbSet, throws) ==
    LET t == sendDisconnectCallback(cbSet, throws)
    IN  IF t[Len(t)] = "threw"
        THEN EmptyBag
        ELSE SetToBag({[pc |-> "notify", k |-> 0, delay |-> 0, cur |-> TRUE,
                        cbSet |-> cbSet, trail |-> t \o <<"onClose">>]})

\* The 'close' event of the current handle: a failed handshake ('error' then
\* 'close'), a remote close or error of an open connection, or the end of a
\* close started by the rotation timer.
WsClose ==
    /\ ws.readyState \in {"CONNECTING", "OPEN", "CLOSING"}
    /\ \E throws \in BOOLEAN :
          /\ throws => onDisconnectCallback
          /\ closers' = closers (+) handleWebSocketClose(onDisconnectCallback, throws)
    /\ ws' = [ws EXCEPT !.readyState = "CLOSED"]
    /\ UNCHANGED <<viewVars, acctVars, detached, reconnectAttempts, pingInterval, reconnectTimeout,
                   onDisconnectCallback, runs, fatalReported>>

\* startDisconnectTimer's callback: this.ws?.close().
RotationFire ==
    /\ reconnectTimeout = "armed"
    /\ reconnectTimeout' = "fired"
    /\ ws' = IF ws.readyState \in {"CONNECTING", "OPEN"}
             THEN [ws EXCEPT !.readyState = "CLOSING"]
             ELSE ws
    /\ UNCHANGED <<viewVars, acctVars, detached, reconnectAttempts, closers, pingInterval,
                   onDisconnectCallback, runs, fatalReported>>

\* onClose after the first notification: clearIntervals, then the cap test.
OnCloseResume ==
    \E c \in BagToSet(closers) :
        /\ c.pc = "notify"
        /\ pingInterval' = clearIntervals(pingInterval, reconnectTimeout).pingInterval
        /\ reconnectTimeout' = clearIntervals(pingInterval, reconnectTimeout).reconnectTimeout
        /\ IF reconnectAttempts < maxReconnectAttempts
           THEN /\ closers' = (closers (-) SetToBag({c})) (+)
                        SetToBag({[c EXCEPT !.pc = "backoff",
                                            !.k = reconnectAttempts,
                                            !.delay = reconnectDelay(reconnectAttempts),
                                            !.trail = @ \o <<"clear", "backoff">>]})
                /\ UNCHANGED fatalReported
           ELSE /\ closers' = (closers (-) SetToBag({c})) (+)
                        SetToBag({[c EXCEPT !.pc = "fatal",
                                            !.trail = @ \o <<"clear", "fatal">>]})
                /\ fatalReported' = TRUE
        /\ UNCHANGED <<viewVars, acctVars, ws, detached, reconnectAttempts, onDisconnectCallback, runs>>

\* attemptReconnect after the backoff timer: count the attempt, connect().
BackoffFire ==
    \E c \in BagToSet(closers) :
        /\ c.pc = "backoff"
        /\ reconnectAttempts' = reconnectAttempts + 1
        /\ closers' = Dropped(closers (-) SetToBag({c}))
        /\ connect("reconnect", c.trail \o <<"connect">>)
        /\ UNCHANGED <<viewVars, acctVars, reconnectTimeout, onDisconnectCallback, runs, fatalReported>>

\* onClose after the fatal notification: the handler ends.
FatalSent ==
    \E c \in BagToSet(closers) :
        /\ c.pc = "fatal"
        /\ closers' = closers (-) SetToBag({c})
        /\ UNCHANGED <<viewVars, acctVars, ws, detached, reconnectAttempts, pingInterval,
                       reconnectTimeout, onDisconnectCallback, runs, fatalReported>>

\* A dropped handle that was still connecting finishes its handshake: nobody
\* listens, nobody closes it.
DetachedOpen ==
    /\ detached.connecting > 0
    /\ detached' = [detached EXCEPT !.connecting = @ - 1, !.open = @ + 1]
    /\ UNCHANGED <<viewVars, acctVars, ws, reconnectAttempts, closers, pingInterval, reconnectTimeout,
                   onDisconnectCallback, runs, fatalReported>>

\* A dropped handle reaches CLOSED (handshake failure, remote close, or the end
\* of the close that closeExistingConnection started).
DetachedClosed ==
    /\ \E f \in {"connecting", "open", "closing"} :
          /\ detached[f] > 0
          /\ detached' = [detached EXCEPT ![f] = @ - 1]
    /\ UNCHANGED <<viewVars, acctVars, ws, reconnectAttempts, closers, pingInterval, reconnectTimeout,
                   onDisconnectCallback, runs, fatalReported>>

InitSocket ==
    /\ ws = NoWs
    /\ detached = NoDetached
    /\ reconnectAttempts = 0
    /\ closers = EmptyBag
    /\ pingInterval = "null"
    /\ reconnectTimeout = "null"
    /\ onDisconnectCallback = FALSE
    /\ runs = 0
    /\ fatalReported = FALSE

NextSocket ==
    \/ OnDisconnect
    \/ Run
    \/ WsOpen
    \/ WsClose
    \/ RotationFire
    \/ OnCloseResume
    \/ BackoffFire
    \/ FatalSent
    \/ DetachedOpen
    \/ DetachedClosed

----------------------------------------------------------------------------
(***************************************************************************)
(* AccountHandler: data                                                    *)
(***************************************************************************)

Symbol == "ETH-USD"
CollateralSymbol == "USDC"
MaxFills == 200
oneHour == 3600000

\* An optional value (undefined / null / absent property): None or Some(x).
None == <<>>
Some(x) == <<x>>

\* A JavaScript object used as a map: a function on its keys.
EmptyMap == [x \in {} |-> 0]
Put(m, k, v) == (k :> v) @@ m
Del(m, k) == [x \in DOMAIN m \ {k} |-> m[x]]

\* The value of each plain numeral "0", "1", ..., "199".
Numerals ==
    LET digits == [n \in 0..199 |-> ToString(n)]
    IN  [s \in {digits[n] : n \in 0..199} |-> CHOOSE n \in 0..199 : digits[n] = s]

\* parseFloat, on the decimal strings that the messages of the model carry.
parseFloat(s) ==
    CASE s = "0" -> 0      [] s = "1" -> 1      [] s = "2" -> 2
      [] s = "3" -> 3      [] s = "-2" -> 0 - 2 [] s = "10" -> 10
      [] s = "10.0" -> 10  [] s = "20" -> 20    [] s = "100" -> 100
      [] s = "110" -> 110  [] s = "200" -> 200  [] s = "300" -> 300
      [] s = "400" -> 400  [] s = "500" -> 500  [] s = "1.0" -> 1
      [] OTHER -> Numerals[s]

\* new Date(iso).getTime(), on the timestamps that the messages carry.
getTime(iso) ==
    CASE iso = "1970-01-01T00:01:00.500Z" -> 60500
      [] iso = "1970-01-01T00:02:00.000Z" -> 120000

\* isoToEpochSeconds
isoToEpochSeconds(isoTime) == getTime(isoTime) \div 1000

Abs(x) == IF x < 0 THEN 0 - x ELSE x

RECURSIVE GCD(_, _)
GCD(a, b) == IF b = 0 THEN a ELSE GCD(b, a % b)

\* The number n / d (d # 0) in lowest terms: the quotients of the PnL formula
\* are kept exact.
Frac(n, d) ==
    LET g == GCD(Abs(n), Abs(d))
        sgn == IF d < 0 THEN 0 - 1 ELSE 1
    IN  [n |-> (sgn * n) \div g, d |-> (sgn * d) \div g]

defaultOpenOrderProperties == [bids |-> EmptyMap, asks |-> EmptyMap]
defaultFilledOrderProperties == <<>>
defaultPositionProperties ==
    [symbol |-> "", direction |-> "NONE", averageEntry |-> 0, averageExit |-> 0,
     positionSizeBase |-> 0, positionSizeUsd |-> 0, sumOpen |-> 0, sumExit |-> 0,
     realizedPnl |-> 0, unrealizedPnl |-> Frac(0, 1)]
defaultCollateralProperties == [symbol |-> "", size |-> 0]

\* The objects the handler keeps, by field name.
Fields == {"openOrders", "filledOrders", "perpetualPosition", "assetPosition",
           "longTermFill"}

DefaultOf(f) ==
    CASE f = "openOrders"        -> defaultOpenOrderProperties
      [] f = "filledOrders"      -> defaultFilledOrderProperties
      [] f = "perpetualPosition" -> defaultPositionProperties
      [] f = "assetPosition"     -> defaultCollateralProperties
      [] f = "longTermFill"      -> <<FALSE>>

\* this.position holds references.  A component is either the object the field
\* of the same name holds now (live), or an object no field holds any more,
\* whose contents can no longer change (val).
LiveRef(f) == [live |-> TRUE, val |-> DefaultOf(f)]
FrozenRef(v) == [live |-> FALSE, val |-> v]

\* The constructor's defaults: position is built from fresh default objects.
DefaultAcct ==
    [openOrders |-> defaultOpenOrderProperties,
     filledOrders |-> defaultFilledOrderProperties,
     perpetualPosition |-> defaultPositionProperties,
     assetPosition |-> defaultCollateralProperties,
     longTermFill |-> <<FALSE>>,
     position |-> [f \in Fields |-> FrozenRef(DefaultOf(f))]]

\* Field f is assigned a new object: a reference to the old object keeps the
\* old contents.
Assign(V, f, new) ==
    [V EXCEPT ![f] = new,
              !.position[f] = IF @.live THEN FrozenRef(V[f]) ELSE @]

\* What this.position shows of field f.
Deref(V, f) == IF V.position[f].live THEN V[f] ELSE V.position[f].val

\* The entities held by the view.
Entities(V) ==
    <<V.openOrders, V.filledOrders, V.perpetualPosition, V.assetPosition>>

(***************************************************************************)
(* AccountHandler: the synchronous pieces                                  *)
(***************************************************************************)

\* generateOrderDict
generateOrderDict(order) ==
    IF order.status = "OPEN" /\ order.goodTilBlockTime # None
    THEN [price |-> parseFloat(order.price), size |-> parseFloat(order.size),
          goodTilTime |-> Some(isoToEpochSeconds(order.goodTilBlockTime[1])),
          longTermFill |-> TRUE]
    ELSE [price |-> parseFloat(order.price), size |-> parseFloat(order.size),
          goodTilTime |-> None, longTermFill |-> FALSE]

IsOpenStatus(status) == status \in {"OPEN", "BEST_EFFORT_OPENED"}
IsClosedStatus(status) == status \in {"FILLED", "CANCELED", "BEST_EFFORT_CANCELED"}

\* initializeOpenOrders: the loop from order i on.
RECURSIVE initOrdersFrom(_, _, _)
initOrdersFrom(oo, initOrders, i) ==
    IF i > Len(initOrders) THEN oo
    ELSE LET order == initOrders[i]
             key == order.clientId
             oo1 == IF order.side = "BUY" /\ IsOpenStatus(order.status)
                    THEN [oo EXCEPT !.bids = Put(@, key, generateOrderDict(order))]
                    ELSE IF order.side = "SELL" /\ IsOpenStatus(order.status)
                    THEN [oo EXCEPT !.asks = Put(@, key, generateOrderDict(order))]
                    ELSE oo
         IN  initOrdersFrom(oo1, initOrders, i + 1)

initializeOpenOrders(V, initOrders) ==
    [V EXCEPT !.openOrders = initOrdersFrom(@, initOrders, 1)]

\* (mutant) every status that is not an open one removes the order
updateOrderSideAnyStatus(orderSide, flags, order, key) ==
    IF IsOpenStatus(order.status)
    THEN [side |-> Put(orderSide, key, generateOrderDict(order)), flags |-> flags]
    ELSE IF key \in DOMAIN orderSide
    THEN [side |-> Del(orderSide, key),
          flags |-> Append(flags, orderSide[key].longTermFill)]
    ELSE [side |-> orderSide, flags |-> flags]

\* updateOrderSide, on one side bucket and the flag list.
updateOrderSide(orderSide, flags, order, key) ==
    IF IsOpenStatus(order.status)
    THEN [side |-> Put(orderSide, key, generateOrderDict(order)), flags |-> flags]
    ELSE IF IsClosedStatus(order.status) /\ key \in DOMAIN orderSide
    THEN [side |-> Del(orderSide, key),
          flags |-> Append(flags, orderSide[key].longTermFill)]
    ELSE [side |-> orderSide, flags |-> flags]

\* updateOrders: the loop from order i on.
RECURSIVE updateOrdersFrom(_, _, _)
updateOrdersFrom(V, updateOrder, i) ==
    IF i > Len(updateOrder) THEN V
    ELSE LET order == updateOrder[i]
             key == order.clientId
             V1 == IF order.side = "BUY"
                   THEN LET r == updateOrderSide(V.openOrders.bids, V.longTermFill, order, key)
                        IN  [V EXCEPT !.openOrders.bids = r.side, !.longTermFill = r.flags]
                   ELSE IF order.side = "SELL"
                   THEN LET r == updateOrderSide(V.openOrders.asks, V.longTermFill, order, key)
                        IN  [V EXCEPT !.openOrders.asks = r.side, !.longTermFill = r.flags]
                   ELSE V
         IN  updateOrdersFrom(V1, updateOrder, i + 1)

updateOrders(V, updateOrder) ==
    IF updateOrder = None THEN V ELSE updateOrdersFrom(V, updateOrder[1], 1)

\* (mutant) at the bound the newest entry is dropped
storeFillsEvictNewest(filledOrders, price, size) ==
    IF \E i \in 1..Len(filledOrders) : filledOrders[i].price = price
    THEN LET i == CHOOSE j \in 1..Len(filledOrders) : filledOrders[j].price = price
         IN  [filledOrders EXCEPT ![i].size = @ + parseFloat(size)]
    ELSE LET kept == IF Len(filledOrders) >= MaxFills
                     THEN SubSeq(filledOrders, 1, Len(filledOrders) - 1)
                     ELSE filledOrders
         IN  Append(kept, [price |-> price, size |-> parseFloat(size)])

\* (mutant) a fill at a price already held starts from twice the held size
storeFillsDoubling(filledOrders, price, size) ==
    IF \E i \in 1..Len(filledOrders) : filledOrders[i].price = price
    THEN LET i == CHOOSE j \in 1..Len(filledOrders) : filledOrders[j].price = price
         IN  [filledOrders EXCEPT ![i].size = 2 * @ + parseFloat(size)]
    ELSE LET kept == IF Len(filledOrders) >= MaxFills
                     THEN Tail(filledOrders) ELSE filledOrders
         IN  Append(kept, [price |-> price, size |-> parseFloat(size)])

\* (mutant) a new price is added without evicting anything
storeFillsNoEviction(filledOrders, price, size) ==
    IF \E i \in 1..Len(filledOrders) : filledOrders[i].price = price
    THEN LET i == CHOOSE j \in 1..Len(filledOrders) : filledOrders[j].price = price
         IN  [filledOrders EXCEPT ![i].size = @ + parseFloat(size)]
    ELSE Append(filledOrders, [price |-> price, size |-> parseFloat(size)])

\* storeFills, on the insertion-ordered Map price -> cumulative size.
storeFills(filledOrders, price, size) ==
    IF \E i \in 1..Len(filledOrders) : filledOrders[i].price = price
    THEN LET i == CHOOSE j \in 1..Len(filledOrders) : filledOrders[j].price = price
         IN  [filledOrders EXCEPT ![i].size = @ + parseFloat(size)]
    ELSE LET kept == IF Len(filledOrders) >= MaxFills
                     THEN Tail(filledOrders) ELSE filledOrders
         IN  Append(kept, [price |-> price, size |-> parseFloat(size)])

\* updateFills: the loop from fill i on.
RECURSIVE updateFillsFrom(_, _, _)
updateFillsFrom(filledOrders, fills, i) ==
    IF i > Len(fills) THEN filledOrders
    ELSE updateFillsFrom(storeFills(filledOrders, fills[i].price, fills[i].size),
                         fills, i + 1)

updateFills(V, fills) ==
    IF fills = None THEN V
    ELSE [V EXCEPT !.filledOrders = updateFillsFrom(@, fills[1], 1)]

\* initializeFills after the fetch: only fills younger than one hour are stored.
RECURSIVE storeRecentFrom(_, _, _)
storeRecentFrom(filledOrders, fills, i) ==
    IF i > Len(fills) THEN filledOrders
    ELSE storeRecentFrom(IF fills[i].age < oneHour
                         THEN storeFills(filledOrders, fills[i].price, fills[i].size)
                         ELSE filledOrders,
                         fills, i + 1)

\* hasOpenPosition
hasOpenPosition(V) == V.perpetualPosition.positionSizeBase > 0

\* assignNonNullPositionData
assignNonNullPositionData(pp, position, price) ==
    [pp EXCEPT !.symbol = position.market,
               !.direction = position.side,
               !.averageEntry = parseFloat(position.entryPrice),
               !.positionSizeBase = Abs(parseFloat(position.size)),
               !.positionSizeUsd = Abs(parseFloat(position.size) * price),
               !.sumOpen = parseFloat(position.sumOpen) * price,
               !.sumExit = parseFloat(position.sumClose)]

\* handleNullExitPrice
handleNullExitPrice(pp, position) ==
    [pp EXCEPT !.averageExit = IF position.exitPrice # None
                               THEN parseFloat(position.exitPrice[1]) ELSE 0]

\* handleUndefinedPnl: (factor * usd) - usd with factor = price / entry for a
\* long position and entry / price otherwise.
\* (mutant) the feed's unrealized PnL is taken when the update carries one
handleUndefinedPnlTrustsFeed(pp, position, price) ==
    LET entry == parseFloat(position.entryPrice)
        usd == pp.positionSizeUsd
    IN  [pp EXCEPT !.unrealizedPnl =
                       IF position.unrealizedPnl # None
                       THEN Frac(parseFloat(position.unrealizedPnl[1]), 1)
                       ELSE IF position.side = "LONG"
                       THEN Frac(price * usd - usd * entry, entry)
                       ELSE Frac(entry * usd - usd * price, price),
                   !.realizedPnl = IF position.realizedPnl # None
                                   THEN parseFloat(position.realizedPnl[1]) ELSE @]

handleUndefinedPnl(pp, position, price) ==
    LET entry == parseFloat(position.entryPrice)
        usd == pp.positionSizeUsd
    IN  [pp EXCEPT !.unrealizedPnl =
                       IF position.side = "LONG"
                       THEN Frac(price * usd - usd * entry, entry)
                       ELSE Frac(entry * usd - usd * price, price),
                   !.realizedPnl = IF position.realizedPnl # None
                                   THEN parseFloat(position.realizedPnl[1]) ELSE @]

\* updatePosition after getPrice: the loop from position i on.
RECURSIVE updatePositionFrom(_, _, _, _)
updatePositionFrom(pp, updatePosition, price, i) ==
    IF i > Len(updatePosition) THEN pp
    ELSE LET position == updatePosition[i]
             pp1 == IF position.market = Symbol
                    THEN handleNullExitPrice(
                             handleUndefinedPnl(
                                 assignNonNullPositionData(pp, position, price),
                                 position, price),
                             position)
                    ELSE pp
         IN  updatePositionFrom(pp1, updatePosition, price, i + 1)

\* assignCollateral (the asset is present)
assignCollateral(V, collateral) ==
    Assign(V, "assetPosition",
           [symbol |-> collateral[CollateralSymbol].symbol,
            size |-> parseFloat(collateral[CollateralSymbol].size)])

\* updateCollateral (the list is absent or non-empty)
updateCollateral(V, assetPosition) ==
    IF assetPosition = None THEN V
    ELSE Assign(V, "assetPosition",
                [symbol |-> assetPosition[1][1].symbol,
                 size |-> parseFloat(assetPosition[1][1].size)])

\* assignPosition
assignPosition(V) == [V EXCEPT !.position = [f \in Fields |-> LiveRef(f)]]

\* (mutant) the fill ledger survives the cleanup
cleanupAccountKeepsFills(V) ==
    [openOrders |-> defaultOpenOrderProperties,
     filledOrders |-> V.filledOrders,
     perpetualPosition |-> defaultPositionProperties,
     assetPosition |-> defaultCollateralProperties,
     longTermFill |-> V.longTermFill,
     position |-> [f \in Fields |-> FrozenRef(DefaultOf(f))]]

\* cleanupAccount: longTermFill is not reset.
cleanupAccount(V) ==
    [openOrders |-> defaultOpenOrderProperties,
     filledOrders |-> defaultFilledOrderProperties,
     perpetualPosition |-> defaultPositionProperties,
     assetPosition |-> defaultCollateralProperties,
     longTermFill |-> V.longTermFill,
     position |-> [f \in Fields |-> FrozenRef(DefaultOf(f))]]

(***************************************************************************)
(* AccountHandler.handler, cut at its suspensions.  A piece returns the    *)
(* view it leaves, where the call continues (pc) and what it threw (err).  *)
(***************************************************************************)

Ok(V, pc) == [v |-> V, pc |-> pc, err |-> "none"]
Throw(V, e) == [v |-> V, pc |-> "done", err |-> e]

\* initializeAccount, lines 645-646, then assignPosition (line 613).
\* collateral[this.asset].symbol throws when the asset is missing.
SnapFinish(V, m) ==
    LET assetPosition == m.contents.subaccount.assetPositions
    IN  IF CollateralSymbol \notin DOMAIN assetPosition
        THEN Throw(V, "TypeError")
        ELSE Ok(assignPosition(assignCollateral(V, assetPosition)), "done")

\* initializeFills up to the fetch (line 744).
SnapFills(V, m, client) ==
    IF ~client \/ ~hasOpenPosition(V) THEN SnapFinish(V, m) ELSE Ok(V, "initFills")

\* (mutant) the fetched fills are dropped, not stored
SnapAfterFillsDropsResult(V, m, fills) == SnapFinish(V, m)

\* initializeFills after the fetch (lines 748-758), then the rest.
SnapAfterFills(V, m, fills) ==
    SnapFinish([V EXCEPT !.filledOrders = storeRecentFrom(@, fills, 1)], m)

\* initializePosition after getPrice (lines 703-710), then initializeFills.
\* initPosition[this.symbol].status throws when the symbol is missing.
SnapAfterPrice(V, m, price, client) ==
    LET initPosition == m.contents.subaccount.openPerpetualPositions
    IN  IF Symbol \notin DOMAIN initPosition
        THEN Throw(V, "TypeError")
        ELSE LET position == initPosition[Symbol]
                 pp == handleNullExitPrice(
                           [assignNonNullPositionData(V.perpetualPosition, position, price)
                               EXCEPT !.unrealizedPnl = Frac(parseFloat(position.unrealizedPnl), 1),
                                      !.realizedPnl = parseFloat(position.realizedPnl)],
                           position)
             IN  SnapFills(IF position.status = "OPEN"
                           THEN [V EXCEPT !.perpetualPosition = pp] ELSE V,
                           m, client)

\* handler, case Subscribed, up to the first suspension.  Without an indexer
\* client getPrice returns 1 at once.
SnapStart(V, m, client) ==
    LET V1 == initializeOpenOrders(V, m.contents.orders)
    IN  IF DOMAIN m.contents.subaccount.openPerpetualPositions = {}
        THEN SnapFills(V1, m, client)
        ELSE IF ~client THEN SnapAfterPrice(V1, m, 1, client)
        ELSE Ok(V1, "initPrice")

\* updateAccount, lines 816-817, then assignPosition (line 619).
\* assetPosition[0].symbol throws on an empty list.
UpdFinish(V, m) ==
    LET assetPosition == m.contents.assetPositions
    IN  IF assetPosition # None /\ Len(assetPosition[1]) = 0
        THEN Throw(V, "TypeError")
        ELSE Ok(assignPosition(updateCollateral(V, assetPosition)), "done")

\* updatePosition after getPrice (lines 881-887), then the rest.
UpdAfterPrice(V, m, price) ==
    UpdFinish([V EXCEPT !.perpetualPosition =
                   updatePositionFrom(@, m.contents.perpetualPositions[1], price, 1)],
              m)

\* handler, case ChannelData, up to the first suspension.
UpdStart(V, m, client) ==
    LET V2 == updateFills(updateOrders(Assign(V, "longTermFill", <<>>),
                                       m.contents.orders),
                          m.contents.fills)
    IN  IF m.contents.perpetualPositions = None THEN UpdFinish(V2, m)
        ELSE IF ~client THEN UpdAfterPrice(V2, m, 1)
        ELSE Ok(V2, "updPrice")

\* handler up to the first suspension.
handlerStart(V, m, client) ==
    CASE m.type = "subscribed"   -> SnapStart(V, m, client)
      [] m.type = "channel_data" -> UpdStart(V, m, client)
      [] OTHER                   -> Ok(V, "done")

\* The continuation of a call suspended in getPrice, given the candles.
afterPrice(V, m, pc, candles, client) ==
    IF candles = None THEN Throw(V, "NoPriceData")
    ELSE IF pc = "initPrice"
    THEN SnapAfterPrice(V, m, parseFloat(candles[1]), client)
    ELSE UpdAfterPrice(V, m, parseFloat(candles[1]))

\* handler run from its call to its end with nothing in between.
handlerWhole(V, m, client, candles, fills) ==
    LET r0 == handlerStart(V, m, client)
        r1 == IF r0.pc \in {"initPrice", "updPrice"}
              THEN afterPrice(r0.v, m, r0.pc, candles, client) ELSE r0
        r2 == IF r1.pc = "initFills" THEN SnapAfterFills(r1.v, m, fills) ELSE r1
    IN  r2

(***************************************************************************)
(* The messages and sources explored.                                      *)
(***************************************************************************)

Order(clientId, side, status, goodTilBlockTime) ==
    [clientId |-> clientId, side |-> side, status |-> status, price |-> "10",
     size |-> "1", goodTilBlockTime |-> goodTilBlockTime]

InitPerpetualPosition(market, side, size) ==
    [market |-> market, status |-> "OPEN", side |-> side, size |-> size,
     entryPrice |-> "100", exitPrice |-> None, realizedPnl |-> "3",
     unrealizedPnl |-> "20", sumOpen |-> "2", sumClose |-> "0"]

ChannelDataPerpetualPosition(market, side, size) ==
    [market |-> market, status |-> "OPEN", side |-> side, size |-> size,
     entryPrice |-> "100", exitPrice |-> Some("110"), realizedPnl |-> None,
     sumOpen |-> "2", sumClose |-> "1"]

Asset(size) == [symbol |-> CollateralSymbol, size |-> size]

Subscribed(orders, positions, assets) ==
    [type |-> "subscribed", id |-> "dydx1/0",
     contents |-> [orders |-> orders,
                   subaccount |-> [openPerpetualPositions |-> positions,
                                   assetPositions |-> assets]]]

ChannelData(orders, fills, positions, assets) ==
    [type |-> "channel_data", id |-> "dydx1/0",
     contents |-> [orders |-> orders, fills |-> fills,
                   perpetualPositions |-> positions, assetPositions |-> assets]]

Messages ==
    { [type |-> "connected"],
      [type |-> "error"],
      Subscribed(<<Order("1", "BUY", "OPEN", Some("1970-01-01T00:01:00.500Z"))>>,
                 Symbol :> InitPerpetualPosition(Symbol, "LONG", "2"),
                 CollateralSymbol :> Asset("500")),
      Subscribed(<<>>, EmptyMap, CollateralSymbol :> Asset("300")),
      Subscribed(<<>>, "BTC-USD" :> InitPerpetualPosition("BTC-USD", "LONG", "1"),
                 CollateralSymbol :> Asset("300")),
      Subscribed(<<>>, EmptyMap, EmptyMap),
      ChannelData(Some(<<Order("1", "BUY", "FILLED", None)>>),
                  Some(<<[price |-> "10", size |-> "1"]>>),
                  Some(<<ChannelDataPerpetualPosition(Symbol, "SHORT", "-2")>>),
                  Some(<<Asset("400")>>)),
      ChannelData(Some(<<Order("2", "SELL", "BEST_EFFORT_OPENED", None)>>),
                  Some(<<[price |-> "10.0", size |-> "2"]>>), None, None),
      ChannelData(None, None, None, Some(<<Asset("200")>>)),
      ChannelData(None, None, None, Some(<<>>)),
      Subscribed(<<Order("1", "BUY", "FILLED", None)>>, EmptyMap,
                 CollateralSymbol :> Asset("300")),
      ChannelData(Some(<<Order("1", "BUY", "UNTRIGGERED", None),
                         Order("3", "SELL", "UNTRIGGERED", None)>>),
                  None, None, None) }

\* What the price source may hold: no candle, or a latest daily close.
Candles == {None, Some("100"), Some("110")}

\* What the historical-fills source may return: fills with their age in ms.
Histories ==
    { <<>>,
      <<[price |-> "10", size |-> "3", age |-> 60000],
        [price |-> "20", size |-> "1", age |-> 7200000]>> }

(***************************************************************************)
(* AccountHandler: actions                                                 *)
(***************************************************************************)

\* The status each client id was last reported in, after the order entries
\* of message m.
RECURSIVE ReportedFrom(_, _, _)
ReportedFrom(reported, orders, i) ==
    IF i > Len(orders) THEN reported
    ELSE ReportedFrom(Put(reported, orders[i].clientId, orders[i].status), orders, i + 1)

Reported(reported, m) ==
    CASE m.type = "subscribed" -> ReportedFrom(reported, m.contents.orders, 1)
      [] m.type = "channel_data" /\ m.contents.orders # None ->
             ReportedFrom(reported, m.contents.orders[1], 1)
      [] OTHER -> reported

\* initializeClient
InitializeClient ==
    /\ ~indexerClient
    /\ indexerClient' = TRUE
    /\ UNCHANGED <<viewVars, sockVars, acct, calls, delivered, candle, history, outcome,
                   seqView, cleaned, audit>>

\* How a piece of a call ends: the call is suspended again, or it returns or
\* throws and its outcome is recorded.  A suspended call remembers the view
\* it found when it was made (before).
Settle(id, m, r, dirty, before) ==
    /\ acct' = r.v
    /\ IF r.pc = "done"
       THEN /\ calls' = {c \in calls : c.id # id}
            /\ outcome' = [result |-> IF r.err = "none" THEN "ok" ELSE r.err,
                           dirty |-> dirty]
       ELSE /\ calls' = {c \in calls : c.id # id} \cup
                        {[id |-> id, msg |-> m, pc |-> r.pc, dirty |-> dirty,
                          before |-> before]}
            /\ UNCHANGED outcome

\* handleWebSocketMessage: the callback is called and not awaited, so the
\* handler runs up to its first suspension whatever earlier calls are doing.
Handle(m) ==
    /\ LET r == handlerStart(acct, m, indexerClient)
       IN  /\ Settle(delivered + 1, m, r, Entities(r.v) # Entities(acct), acct)
           /\ seqView' = handlerWhole(seqView, m, indexerClient, candle, history).v
           /\ audit' = [op |-> "handler", msg |-> m, before |-> acct,
                        reported |-> Reported(audit.reported, m)]
    /\ delivered' = delivered + 1
    /\ UNCHANGED <<viewVars, sockVars, indexerClient, candle, history, cleaned>>

\* A message of the catalogue arrives.
Deliver ==
    /\ delivered < MaxDeliveries
    /\ \E m \in Messages : Handle(m)

\* getPrice's request completes for one suspended call.
PriceResolved ==
    /\ \E c \in calls :
          /\ c.pc \in {"initPrice", "updPrice"}
          /\ LET r == afterPrice(acct, c.msg, c.pc, candle, indexerClient)
             IN  Settle(c.id, c.msg, r, c.dirty \/ Entities(r.v) # Entities(acct),
                        c.before)
    /\ audit' = [audit EXCEPT !.op = "resume", !.before = acct]
    /\ UNCHANGED <<viewVars, sockVars, indexerClient, delivered, candle, history, seqView,
                   cleaned>>

\* getSubaccountFills' request completes for one suspended call.
FillsResolved ==
    /\ \E c \in calls :
          /\ c.pc = "initFills"
          /\ LET r == SnapAfterFills(acct, c.msg, history)
             IN  Settle(c.id, c.msg, r, c.dirty \/ Entities(r.v) # Entities(acct),
                        c.before)
    /\ audit' = [audit EXCEPT !.op = "resume", !.before = acct]
    /\ UNCHANGED <<viewVars, sockVars, indexerClient, delivered, candle, history, seqView,
                   cleaned>>

\* The teardown hook of the consumer: cleanupAccount.
CleanupAccount ==
    /\ acct' = cleanupAccount(acct)
    /\ seqView' = cleanupAccount(seqView)
    /\ cleaned' = TRUE
    /\ audit' = [audit EXCEPT !.op = "cleanup", !.before = acct]
    /\ UNCHANGED <<viewVars, sockVars, indexerClient, calls, delivered, candle, history,
                   outcome>>

InitAccount ==
    /\ indexerClient = FALSE
    /\ acct = DefaultAcct
    /\ calls = {}
    /\ delivered = 0
    /\ candle \in Candles
    /\ history \in Histories
    /\ outcome = [result |-> "none", dirty |-> FALSE]
    /\ seqView = DefaultAcct
    /\ cleaned = FALSE
    /\ audit = [op |-> "none", msg |-> [type |-> "none"], before |-> DefaultAcct,
                reported |-> EmptyMap]

NextAccount ==
    \/ InitializeClient
    \/ Deliver
    \/ PriceResolved
    \/ FillsResolved
    \/ CleanupAccount

(***************************************************************************)
(* The fill ledger at its bound: the account view after many fills, and    *)
(* single fills folded into it.                                            *)
(***************************************************************************)

\* One incremental batch that carries nothing but fills.
FillBatch(fills) == ChannelData(None, Some(fills), None, None)

\* The view after batches of fills at the n distinct prices "1", ..., "n", each
\* of size 1: what handlerStart gives for FillBatch of these fills.
LedgerAfter(n) ==
    assignPosition(
        [Assign(DefaultAcct, "longTermFill", <<>>) EXCEPT
            !.filledOrders = [i \in 1..n |-> [price |-> ToString(i), size |-> 1]]])

\* Ledgers the folds start from: empty, one below the bound, at the bound.
LedgerStarts == {DefaultAcct, LedgerAfter(MaxFills - 1), LedgerAfter(MaxFills)}

FoldPrices == {"1", "10", "201", "202"}
FoldSizes == {"1", "2"}

\* A batch of one fill arrives.
FoldFill ==
    /\ delivered < MaxFolds
    /\ \E price \in FoldPrices, size \in FoldSizes :
          Handle(FillBatch(<<[price |-> price, size |-> size]>>))

InitLedger ==
    /\ InitSocket
    /\ indexerClient = FALSE
    /\ acct \in LedgerStarts
    /\ calls = {}
    /\ delivered = 0
    /\ candle = None
    /\ history = <<>>
    /\ outcome = [result |-> "none", dirty |-> FALSE]
    /\ seqView = acct
    /\ cleaned = FALSE
    /\ audit = [op |-> "none", msg |-> [type |-> "none"], before |-> acct,
                reported |-> EmptyMap]
    /\ orderbook = [symbol \in {"ETH-USD", "BTC-USD"} |-> [bids |-> <<>>, asks |-> <<>>]]
    /\ tradeData = [symbol \in {"ETH-USD", "BTC-USD"} |->
                       [priceRound |-> 0, sizeRound |-> 0, tickSize |-> "0",
                        stepSize |-> "0", minQty |-> 0]]
    /\ viewOp = [op |-> "none", msg |-> [type |-> "none"], symbol |-> "", stepSize |-> ""]
    /\ viewBefore = [orderbook |-> orderbook, tradeData |-> tradeData]
    /\ viewSteps = 0
    /\ feedBook = [symbol \in {"ETH-USD", "BTC-USD"} |->
                      [synced |-> FALSE, bids |-> {}, asks |-> {}]]

NextLedger == FoldFill

SpecLedger == InitLedger /\ [][NextLedger]_vars

(***************************************************************************)
(* OrderbookHandler                                                        *)
(***************************************************************************)

\* The symbols the order book and the markets view are constructed with.
symbols == {"ETH-USD", "BTC-USD"}

\* initializeOrderbookDataForSymbol
EmptyBook == [bids |-> <<>>, asks |-> <<>>]

\* OrderbookHandler.constructor
DefaultOrderbook == [symbol \in symbols |-> EmptyBook]

\* The comparator of mapAndSortOrders is negative: a sorts before b.
SortsBefore(a, b, bookSide) ==
    IF bookSide = "bids" THEN b.price - a.price < 0 ELSE a.price - b.price < 0

\* Array.prototype.sort (stable): x is put into the sorted prefix before the
\* first level that it sorts before.
RECURSIVE InsertSorted(_, _, _)
InsertSorted(x, sorted, bookSide) ==
    IF sorted = <<>> THEN <<x>>
    ELSE IF SortsBefore(x, Head(sorted), bookSide) THEN <<x>> \o sorted
    ELSE <<Head(sorted)>> \o InsertSorted(x, Tail(sorted), bookSide)

RECURSIVE SortFrom(_, _, _, _)
SortFrom(sorted, levels, i, bookSide) ==
    IF i > Len(levels) THEN sorted
    ELSE SortFrom(InsertSorted(levels[i], sorted, bookSide), levels, i + 1, bookSide)

\* mapAndSortOrders
mapAndSortOrders(contents, bookSide) ==
    LET initData == contents[bookSide][1]
        mapped == [i \in 1..Len(initData) |->
                      [price |-> parseFloat(initData[i].price),
                       size |-> parseFloat(initData[i].size)]]
        sorted == SortFrom(<<>>, mapped, 1, bookSide)
    IN  SubSeq(sorted, 1, IF Len(sorted) < OrderbookLength
                          THEN Len(sorted) ELSE OrderbookLength)

\* (mutant) a side that holds levels is not replaced by the snapshot
initializeBookKeepsHeldSide(ob, obj) ==
    LET symbol == obj.id
        ob1 == IF obj.contents.bids # None /\ ob[symbol].bids = <<>>
               THEN [ob EXCEPT ![symbol].bids = mapAndSortOrders(obj.contents, "bids")]
               ELSE ob
    IN  IF obj.contents.asks # None /\ ob[symbol].asks = <<>>
        THEN [ob1 EXCEPT ![symbol].asks = mapAndSortOrders(obj.contents, "asks")]
        ELSE ob1

\* initializeBook
initializeBook(ob, obj) ==
    LET symbol == obj.id
        ob1 == IF obj.contents.bids # None
               THEN [ob EXCEPT ![symbol].bids = mapAndSortOrders(obj.contents, "bids")]
               ELSE ob
    IN  IF obj.contents.asks # None
        THEN [ob1 EXCEPT ![symbol].asks = mapAndSortOrders(obj.contents, "asks")]
        ELSE ob1

\* Array.prototype.findIndex(p => p.price === price): 0-based, -1 if absent.
findIndex(updateOrderbook, price) ==
    LET hits == {i \in 1..Len(updateOrderbook) : updateOrderbook[i].price = price}
    IN  IF hits = {} THEN 0 - 1
        ELSE (CHOOSE i \in hits : \A j \in hits : i <= j) - 1

\* findInsertionIndex: the loop, with 0-based start and end.
RECURSIVE findInsertionIndexLoop(_, _, _, _, _)
findInsertionIndexLoop(price, book, bookSide, start, end) ==
    IF start > end THEN start
    ELSE LET mid == (start + end) \div 2
             midPrice == book[mid + 1].price
         IN  IF midPrice = price THEN mid
             ELSE IF bookSide = "bids"
             THEN IF price > midPrice
                  THEN findInsertionIndexLoop(price, book, bookSide, start, mid - 1)
                  ELSE findInsertionIndexLoop(price, book, bookSide, mid + 1, end)
             ELSE IF price < midPrice
                  THEN findInsertionIndexLoop(price, book, bookSide, start, mid - 1)
                  ELSE findInsertionIndexLoop(price, book, bookSide, mid + 1, end)

\* (mutant) a new level always goes to the front
findInsertionIndexFront(price, book, bookSide) == 0

\* findInsertionIndex
findInsertionIndex(price, book, bookSide) ==
    findInsertionIndexLoop(price, book, bookSide, 0, Len(book) - 1)

\* (mutant) the side is not trimmed after an insertion
manageOrderUpdatesNoTrim(price, size, index, bookSide, updateOrderbook) ==
    IF size > 0
    THEN IF index # 0 - 1
         THEN [updateOrderbook EXCEPT ![index + 1].size = size]
         ELSE LET insertionIndex ==
                      findInsertionIndex(price, updateOrderbook, bookSide)
              IN  SubSeq(updateOrderbook, 1, insertionIndex)
                      \o <<[price |-> price, size |-> size]>>
                      \o SubSeq(updateOrderbook, insertionIndex + 1,
                                Len(updateOrderbook))
    ELSE IF index # 0 - 1
    THEN SubSeq(updateOrderbook, 1, index)
             \o SubSeq(updateOrderbook, index + 2, Len(updateOrderbook))
    ELSE updateOrderbook

\* (mutant) a removal splices at index -1 when the price is absent, which
\* drops the last level
manageOrderUpdatesSpliceAbsent(price, size, index, bookSide, updateOrderbook) ==
    IF size > 0
    THEN LET grown ==
                 IF index # 0 - 1
                 THEN [updateOrderbook EXCEPT ![index + 1].size = size]
                 ELSE LET insertionIndex ==
                              findInsertionIndex(price, updateOrderbook, bookSide)
                      IN  SubSeq(updateOrderbook, 1, insertionIndex)
                              \o <<[price |-> price, size |-> size]>>
                              \o SubSeq(updateOrderbook, insertionIndex + 1,
                                        Len(updateOrderbook))
         IN  IF Len(grown) > OrderbookLength
             THEN SubSeq(grown, 1, OrderbookLength) ELSE grown
    ELSE IF index # 0 - 1
    THEN SubSeq(updateOrderbook, 1, index)
             \o SubSeq(updateOrderbook, index + 2, Len(updateOrderbook))
    ELSE SubSeq(updateOrderbook, 1, Len(updateOrderbook) - 1)

\* manageOrderUpdates
manageOrderUpdates(price, size, index, bookSide, updateOrderbook) ==
    IF size > 0
    THEN LET grown ==
                 IF index # 0 - 1
                 THEN [updateOrderbook EXCEPT ![index + 1].size = size]
                 ELSE LET insertionIndex ==
                              findInsertionIndex(price, updateOrderbook, bookSide)
                      IN  SubSeq(updateOrderbook, 1, insertionIndex)
                              \o <<[price |-> price, size |-> size]>>
                              \o SubSeq(updateOrderbook, insertionIndex + 1,
                                        Len(updateOrderbook))
         IN  IF Len(grown) > OrderbookLength
             THEN SubSeq(grown, 1, OrderbookLength) ELSE grown
    ELSE IF index # 0 - 1
    THEN SubSeq(updateOrderbook, 1, index)
             \o SubSeq(updateOrderbook, index + 2, Len(updateOrderbook))
    ELSE updateOrderbook

\* updateBookSide: the loop from entry i on.
RECURSIVE updateBookSideFrom(_, _, _, _)
updateBookSideFrom(updateData, bookSide, updateOrderbook, i) ==
    IF i > Len(updateData) THEN updateOrderbook
    ELSE LET price == parseFloat(updateData[i][1])
             size == parseFloat(updateData[i][2])
             index == findIndex(updateOrderbook, price)
         IN  updateBookSideFrom(updateData, bookSide,
                 manageOrderUpdates(price, size, index, bookSide, updateOrderbook),
                 i + 1)

\* updateBookSide
updateBookSide(ob, data, bookSide, symbol) ==
    [ob EXCEPT ![symbol][bookSide] =
        updateBookSideFrom(data[bookSide][1], bookSide, @, 1)]

\* (mutant) a side the diff does not carry is emptied
updateBookClearsAbsentSide(ob, obj) ==
    LET symbol == obj.id
        ob1 == IF obj.contents.bids # None
               THEN updateBookSide(ob, obj.contents, "bids", symbol)
               ELSE [ob EXCEPT ![symbol].bids = <<>>]
    IN  IF obj.contents.asks # None
        THEN updateBookSide(ob1, obj.contents, "asks", symbol)
        ELSE [ob1 EXCEPT ![symbol].asks = <<>>]

\* updateBook
updateBook(ob, obj) ==
    LET symbol == obj.id
        ob1 == IF obj.contents.bids # None
               THEN updateBookSide(ob, obj.contents, "bids", symbol) ELSE ob
    IN  IF obj.contents.asks # None
        THEN updateBookSide(ob1, obj.contents, "asks", symbol) ELSE ob1

\* OrderbookHandler.handler
orderbookHandler(ob, obj) ==
    CASE obj.type = "subscribed"   -> initializeBook(ob, obj)
      [] obj.type = "channel_data" -> updateBook(ob, obj)
      [] OTHER                     -> ob

\* removeSmallOrders
removeSmallOrders(ob, symbol, stepSize) ==
    LET Kept(order) == order.size > parseFloat(stepSize)
    IN  [ob EXCEPT ![symbol].bids = SelectSeq(@, Kept),
                   ![symbol].asks = SelectSeq(@, Kept)]

\* correctInverseOrderbook
RECURSIVE correctInverseOrderbook(_)
correctInverseOrderbook(book) ==
    IF Len(book.bids) > 0 /\ Len(book.asks) > 0
       /\ book.bids[1].price > book.asks[1].price
    THEN correctInverseOrderbook([bids |-> Tail(book.bids), asks |-> Tail(book.asks)])
    ELSE book

\* cleanupOrderbook
cleanupOrderbook(ob, symbol, stepSize) ==
    LET ob1 == removeSmallOrders(ob, symbol, stepSize)
    IN  IF Len(ob1[symbol].bids) > 0 /\ Len(ob1[symbol].asks) > 0
           /\ ob1[symbol].bids[1].price > ob1[symbol].asks[1].price
        THEN [ob1 EXCEPT ![symbol] = correctInverseOrderbook(@)]
        ELSE ob1

\* cleanupOb
cleanupOb(ob) == [symbol \in symbols |-> EmptyBook]

(***************************************************************************)
(* MarketsHandler                                                          *)
(***************************************************************************)

\* initializeTradeDataForSymbol
defaultTradeData ==
    [priceRound |-> 0, sizeRound |-> 0, tickSize |-> "0", stepSize |-> "0",
     minQty |-> 0]

\* countDecimals, on the tick and step strings that the messages carry.
countDecimals(value) ==
    CASE value = "0.1" -> 1 [] value = "0.01" -> 2 [] value = "1.0" -> 1
      [] value = "1" -> 0 [] value = "0" -> 0

\* updateTradeDataForSymbol
updateTradeDataForSymbol(symbolData) ==
    [priceRound |-> countDecimals(symbolData.tickSize),
     sizeRound |-> countDecimals(symbolData.stepSize),
     tickSize |-> symbolData.tickSize,
     stepSize |-> symbolData.stepSize,
     minQty |-> parseFloat(symbolData.stepSize)]

\* initializeMarkets
initializeMarkets(td, obj) ==
    LET data == obj.contents.markets
    IN  [symbol \in symbols |->
            IF symbol \in DOMAIN data
            THEN updateTradeDataForSymbol(data[symbol]) ELSE td[symbol]]

\* A handler that also stores the market data of a channel_data message.
marketsHandlerAppliesChannelData(td, obj) ==
    CASE obj.type = "subscribed" -> initializeMarkets(td, obj)
      [] obj.type = "channel_data" ->
             [symbol \in symbols |->
                 IF symbol \in DOMAIN obj.contents.trading
                 THEN updateTradeDataForSymbol(obj.contents.trading[symbol])
                 ELSE td[symbol]]
      [] OTHER -> td

\* MarketsHandler.handler
marketsHandler(td, obj) ==
    CASE obj.type = "subscribed" -> initializeMarkets(td, obj)
      [] OTHER                   -> td

\* cleanupMarkets
cleanupMarkets(td) == [symbol \in symbols |-> defaultTradeData]

(***************************************************************************)
(* The order-book and markets messages explored, and the view actions.     *)
(***************************************************************************)

Level(price, size) == [price |-> price, size |-> size]

InitOrderbook(id, bids, asks) ==
    [type |-> "subscribed", channel |-> "v4_orderbook", id |-> id,
     contents |-> [bids |-> Some(bids), asks |-> Some(asks)]]

UpdateOrderbook(id, bids, asks) ==
    [type |-> "channel_data", channel |-> "v4_orderbook", id |-> id,
     version |-> "1", contents |-> [bids |-> bids, asks |-> asks]]

\* A snapshot side of 21 levels, one more than a ladder keeps: the prices
\* first + step, first + 2 step, ... in that order.
LongSide(first, step) ==
    [i \in 1..(OrderbookLength + 1) |-> Level(ToString(first + step * i), "1")]

\* Snapshots list each price once per side, in any order.
BookSnapshots ==
    { InitOrderbook(Symbol, <<Level("99", "2"), Level("100", "1")>>,
                    <<Level("101", "1")>>),
      InitOrderbook(Symbol, LongSide(0, 2), LongSide(94, 0 - 2)),
      InitOrderbook("BTC-USD", <<Level("100", "1"), Level("99", "2")>>,
                    <<Level("101", "1")>>),
      InitOrderbook("BTC-USD", <<Level("100", "1"), Level("98", "0")>>,
                    <<Level("102", "0"), Level("101", "1")>>) }

DiffPrices == {"11", "99", "100", "101"}
DiffSizes == {"0", "2"}

BookDiffs ==
    { UpdateOrderbook(Symbol, Some(<<<<p, z>>>>), None) : p \in DiffPrices, z \in DiffSizes }
    \cup
    { UpdateOrderbook(Symbol, None, Some(<<<<p, z>>>>)) : p \in DiffPrices, z \in DiffSizes }
    \cup
    { UpdateOrderbook(Symbol, Some(<<<<"100", "0">>, <<"98", "2">>>>),
                      Some(<<<<"101", "0">>>>)),
      UpdateOrderbook("BTC-USD", Some(<<<<"100", "0">>>>), None),
      UpdateOrderbook("BTC-USD", None, Some(<<<<"100", "2">>>>)) }

BookMessages ==
    BookSnapshots \cup BookDiffs \cup {[type |-> "connected"], [type |-> "error"]}

MarketData(tickSize, stepSize) == [tickSize |-> tickSize, stepSize |-> stepSize]

InitMarketMessage(markets) ==
    [type |-> "subscribed", channel |-> "v4_markets",
     contents |-> [markets |-> markets]]

MarketChannelData(trading) ==
    [type |-> "channel_data", channel |-> "v4_markets", version |-> "1",
     contents |-> [trading |-> trading]]

MarketMessages ==
    { InitMarketMessage(Symbol :> MarketData("0.1", "1.0")),
      InitMarketMessage((Symbol :> MarketData("0.01", "1"))
                        @@ ("BTC-USD" :> MarketData("1", "1.0"))),
      MarketChannelData(Symbol :> MarketData("1", "1")),
      [type |-> "connected"], [type |-> "error"] }

\* The step sizes cleanupOrderbook is called with.
StepSizes == {"0", "1.0"}

NoMessage == [type |-> "none"]

ViewOp(op, msg, symbol, stepSize) ==
    [op |-> op, msg |-> msg, symbol |-> symbol, stepSize |-> stepSize]

\* What every operation on the two views records.
Record(op, msg, symbol, stepSize) ==
    /\ viewSteps < MaxViewSteps
    /\ viewSteps' = viewSteps + 1
    /\ viewOp' = ViewOp(op, msg, symbol, stepSize)
    /\ viewBefore' = [orderbook |-> orderbook, tradeData |-> tradeData]

\* The levels of positive size that a snapshot side lists.
FeedSnapshot(levels) ==
    {[price |-> parseFloat(levels[i].price), size |-> parseFloat(levels[i].size)] :
        i \in {j \in 1..Len(levels) : parseFloat(levels[j].size) > 0}}

\* A set of levels after the entries of a diff side from entry i on: an
\* entry replaces the level at its price, and removes it when its size is 0.
RECURSIVE FeedDiffFrom(_, _, _)
FeedDiffFrom(levels, entries, i) ==
    IF i > Len(entries) THEN levels
    ELSE LET price == parseFloat(entries[i][1])
             size == parseFloat(entries[i][2])
             others == {level \in levels : level.price # price}
         IN  FeedDiffFrom(IF size > 0
                          THEN others \cup {[price |-> price, size |-> size]}
                          ELSE others,
                          entries, i + 1)

\* The full book of the feed after message obj.
FeedAfter(fb, obj) ==
    CASE obj.type = "subscribed" ->
             [fb EXCEPT ![obj.id] = [synced |-> TRUE,
                                     bids |-> FeedSnapshot(obj.contents.bids[1]),
                                     asks |-> FeedSnapshot(obj.contents.asks[1])]]
      [] obj.type = "channel_data" ->
             [fb EXCEPT ![obj.id].bids =
                            IF obj.contents.bids = None THEN @
                            ELSE FeedDiffFrom(@, obj.contents.bids[1], 1),
                        ![obj.id].asks =
                            IF obj.contents.asks = None THEN @
                            ELSE FeedDiffFrom(@, obj.contents.asks[1], 1)]
      [] OTHER -> fb

\* OrderbookHandler.handler(obj)
OrderbookHandle ==
    /\ \E obj \in BookMessages :
          /\ orderbook' = orderbookHandler(orderbook, obj)
          /\ feedBook' = FeedAfter(feedBook, obj)
          /\ Record("orderbookHandler", obj, "", "")
    /\ UNCHANGED <<sockVars, acctVars, tradeData>>

\* OrderbookHandler.cleanupOrderbook(symbol, stepSize)
CleanupOrderbook ==
    /\ \E symbol \in symbols, stepSize \in StepSizes :
          /\ orderbook' = cleanupOrderbook(orderbook, symbol, stepSize)
          /\ feedBook' = [feedBook EXCEPT ![symbol].synced = FALSE]
          /\ Record("cleanupOrderbook", NoMessage, symbol, stepSize)
    /\ UNCHANGED <<sockVars, acctVars, tradeData>>

\* OrderbookHandler.cleanupOb()
CleanupOb ==
    /\ orderbook' = cleanupOb(orderbook)
    /\ feedBook' = [symbol \in symbols |-> [feedBook[symbol] EXCEPT !.synced = FALSE]]
    /\ Record("cleanupOb", NoMessage, "", "")
    /\ UNCHANGED <<sockVars, acctVars, tradeData>>

\* MarketsHandler.handler(obj)
MarketsHandle ==
    /\ \E obj \in MarketMessages :
          /\ tradeData' = marketsHandler(tradeData, obj)
          /\ Record("marketsHandler", obj, "", "")
    /\ UNCHANGED <<sockVars, acctVars, orderbook, feedBook>>

\* MarketsHandler.cleanupMarkets()
CleanupMarkets ==
    /\ tradeData' = cleanupMarkets(tradeData)
    /\ Record("cleanupMarkets", NoMessage, "", "")
    /\ UNCHANGED <<sockVars, acctVars, orderbook, feedBook>>

InitViews ==
    /\ orderbook = DefaultOrderbook
    /\ tradeData = [symbol \in symbols |-> defaultTradeData]
    /\ viewOp = ViewOp("none", NoMessage, "", "")
    /\ viewBefore = [orderbook |-> orderbook, tradeData |-> tradeData]
    /\ viewSteps = 0
    /\ feedBook = [symbol \in symbols |-> [synced |-> FALSE, bids |-> {}, asks |-> {}]]

NextViews ==
    \/ OrderbookHandle
    \/ CleanupOrderbook
    \/ CleanupOb
    \/ MarketsHandle
    \/ CleanupMarkets

Init == InitSocket /\ InitAccount /\ InitViews

\* The two views take no part in the account's price and fills sources.
InitQuiet == Init /\ candle = None /\ history = <<>>

SpecViews == InitQuiet /\ [][NextViews]_vars

\* The three views side by side, each message going to the view that owns
\* its channel.
NextAll ==
    \/ /\ delivered + viewSteps < MaxOps
       /\ (Deliver \/ NextViews)
    \/ InitializeClient
    \/ PriceResolved
    \/ FillsResolved
    \/ CleanupAccount

InitPriced == Init /\ candle = Some("100") /\ history = <<>>

SpecAll == InitPriced /\ [][NextAll]_vars

SpecAccount == Init /\ [][NextAccount]_vars


SpecSocket == Init /\ [][NextSocket]_vars

----------------------------------------------------------------------------
(***************************************************************************)
(* Claims about the connection manager, checked under SpecSocket.          *)
(***************************************************************************)

\* The trails of all close handlers: the suspended ones, and the one whose
\* reconnect attempt created the current handle.
Trails ==
    {c.trail : c \in BagToSet(closers)} \cup
    (IF ws.by = "reconnect" THEN {ws.trail} ELSE {})

\* C1: on every close of the current connection the registered teardown hook
\* is the first step of the close handler: it has been invoked before the
\* handler reaches the backoff wait, a connection attempt or the fatal report,
\* also on the close that finds the attempt cap exceeded.
C1_HookBeforeReconnect ==
    /\ \A c \in BagToSet(closers) : c.cbSet => c.trail[1] = "hook"
    /\ \A t \in Trails :
          /\ t[1] \in {"hook", "nocallback"}
          /\ \A i \in 1..Len(t) : t[i] \in {"backoff", "connect", "fatal"} => i > 1

\* C1 witness: a close that found the cap exceeded, with the hook invoked first.
C1_Witness ==
    \E c \in BagToSet(closers) :
        c.pc = "fatal" /\ c.cbSet /\ c.trail = <<"hook", "onClose", "clear", "fatal">>

Live(w) == IF w.readyState \in {"CONNECTING", "OPEN"} THEN 1 ELSE 0

\* C2: at every moment at most one physical connection handle is open or
\* connecting, whatever state the prior handle was in when a new one was opened.
C2_AtMostOneLiveHandle ==
    Live(ws) + detached.connecting + detached.open <= 1

\* C3: the only state in which the current connection is closed and no close
\* handler is left to make a further attempt is the terminal state, reached
\* when the attempt cap is exceeded.
C3_StoppedOnlyWhenCapExceeded ==
    (ws.readyState = "CLOSED" /\ closers = EmptyBag)
        => reconnectAttempts >= maxReconnectAttempts

\* C4: after any successful open, by run() or by a reconnect attempt, the
\* attempt counter is 0.
C4_OpenResetsCounter ==
    ws.readyState = "OPEN" => reconnectAttempts = 0

\* C5: the attempt counter never exceeds the cap of 10, and no close handler
\* schedules a further attempt once the counter has reached the cap.
C5_CapStopsRetries ==
    /\ reconnectAttempts <= maxReconnectAttempts
    /\ \A c \in BagToSet(closers) :
          c.pc = "backoff" => c.k < maxReconnectAttempts

\* The waits of the specification, in milliseconds, for counter values 0..9.
ExpectedDelayMs ==
    <<1000, 2000, 4000, 8000, 16000, 32000, 64000, 128000, 256000, 512000>>

\* C6: the wait scheduled when the attempt counter equals k is 2^k seconds
\* (1s, 2s, 4s, 8s, ...) for every k below the cap, and making the attempt
\* increments the counter by exactly one.
C6_BackoffSchedule ==
    /\ [](\A c \in BagToSet(closers) :
            c.pc = "backoff" =>
                /\ c.k < maxReconnectAttempts
                /\ c.delay = ExpectedDelayMs[c.k + 1])
    /\ [][(\E c \in BagToSet(closers) :
              c.pc = "backoff" /\ closers' = closers (-) SetToBag({c}))
          => reconnectAttempts' = reconnectAttempts + 1]_vars

\* C6 witness: the fourth consecutive attempt waits 8 seconds.
C6_Witness ==
    \E c \in BagToSet(closers) : c.pc = "backoff" /\ c.k = 3 /\ c.delay = 8000

(***************************************************************************)
(* Claims about the account view, checked under SpecAccount.               *)
(***************************************************************************)

\* C7: account messages are applied strictly in feed-delivery order: once
\* every handler call has ended (and no cleanup intervened) the entities of
\* the view equal the result of applying the delivered messages one after the
\* other, each completely, whatever the latency of the price lookup and of
\* the historical-fills fetch.
C7_AppliedInFeedOrder ==
    (calls = {} /\ ~cleaned) => Entities(acct) = Entities(seqView)

\* C8: no handler call begins mutating the view (orders, fills, position,
\* collateral, per-batch flag list) while an earlier handler call on the same
\* view is suspended in a price lookup or a historical-fills fetch.
C8_OneMessageAtATime ==
    [][(delivered' = delivered + 1 /\ acct' # acct) => calls = {}]_vars

\* C9: every handler call returns a view and never fails, for every decoded
\* message: a snapshot whose open-positions map lacks the tracked symbol, a
\* snapshot without the collateral asset and an empty incremental collateral
\* list included.
C9_HandleNeverFails ==
    outcome.result \in {"none", "ok"}

\* C10: when the price source reports NoPriceData during a handler call, open
\* orders, fill ledger, position and collateral are the same after the failed
\* call as before it: the message is not partially applied.
C10_NoPriceDataLeavesStateUntouched ==
    outcome.result = "NoPriceData" => ~outcome.dirty

(***************************************************************************)
(* Claims about the views, checked under SpecAll, SpecViews and SpecLedger.*)
(***************************************************************************)

ExpectedTypes == {"connected", "subscribed", "channel_data"}

\* A batch that carries nothing but order entries of unexpected status.
UnexpectedStatusBatch(m) ==
    /\ m.type = "channel_data"
    /\ m.contents.orders # None
    /\ \A i \in 1..Len(m.contents.orders[1]) :
          LET status == m.contents.orders[1][i].status
          IN  ~IsOpenStatus(status) /\ ~IsClosedStatus(status)
    /\ m.contents.fills = None
    /\ m.contents.perpetualPositions = None
    /\ m.contents.assetPositions = None

\* C11: a message with an unexpected type leaves the view that handled it
\* exactly as it was (account view, order book, market metadata), and a batch
\* whose order entries have an unexpected status leaves open orders, fill
\* ledger, position and collateral as they were.
C11_UnexpectedInputDropped ==
    /\ (audit.op = "handler" /\ audit.msg.type \notin ExpectedTypes)
          => acct = audit.before
    /\ (audit.op = "handler" /\ UnexpectedStatusBatch(audit.msg))
          => Entities(acct) = Entities(audit.before)
    /\ (viewOp.op = "orderbookHandler" /\ viewOp.msg.type \notin ExpectedTypes)
          => orderbook = viewBefore.orderbook
    /\ (viewOp.op = "marketsHandler" /\ viewOp.msg.type \notin ExpectedTypes)
          => tradeData = viewBefore.tradeData

\* C11 witness: order 1 is held and a batch reporting it in an unexpected
\* status has just been handled.
C11_Witness ==
    /\ audit.op = "handler"
    /\ UnexpectedStatusBatch(audit.msg)
    /\ "1" \in DOMAIN audit.before.openOrders.bids
    /\ "1" \in DOMAIN acct.openOrders.bids

Sides == {"bids", "asks"}

\* The diff of one entry for one side of symbol id.
OneEntryDiff(id, bookSide, price, size) ==
    IF bookSide = "bids"
    THEN UpdateOrderbook(id, Some(<<<<price, size>>>>), None)
    ELSE UpdateOrderbook(id, None, Some(<<<<price, size>>>>))

\* The side after the one entry (price, size) of an incremental diff.
AfterEntry(ladder, bookSide, price, size) ==
    updateBookSideFrom(<<<<price, size>>>>, bookSide, ladder, 1)

\* C12: each side of each symbol's ladder holds at most 20 entries, and a new
\* price inserted into a side of 20 entries leaves it with exactly 20.
C12_LadderAtMostTwenty ==
    \A symbol \in symbols, bookSide \in Sides :
       LET ladder == orderbook[symbol][bookSide]
       IN  /\ Len(ladder) <= 20
           /\ \A price \in DiffPrices :
                 (Len(ladder) = 20 /\ findIndex(ladder, parseFloat(price)) = 0 - 1)
                    => Len(AfterEntry(ladder, bookSide, price, "2")) = 20

\* C12 witness: the bid side held 20 levels, a new best price has just been
\* inserted, and it holds 20 levels.
C12_Witness ==
    /\ viewOp.op = "orderbookHandler"
    /\ viewOp.msg = OneEntryDiff(Symbol, "bids", "101", "2")
    /\ Len(viewBefore.orderbook[Symbol].bids) = 20
    /\ findIndex(viewBefore.orderbook[Symbol].bids, 101) = 0 - 1
    /\ Len(orderbook[Symbol].bids) = 20
    /\ orderbook[Symbol].bids[1] = [price |-> 101, size |-> 2]

C14_CrossedBookCorrected ==
    viewOp.op = "cleanupOrderbook" =>
       LET book == orderbook[viewOp.symbol]
       IN  \/ book.bids = <<>>
           \/ book.asks = <<>>
           \/ book.bids[1].price < book.asks[1].price

ScenarioBook ==
    [bids |-> <<[price |-> 100, size |-> 1], [price |-> 99, size |-> 2]>>,
     asks |-> <<[price |-> 101, size |-> 1]>>]

\* C16: a diff that carries entries for one side only leaves the other side
\* of that symbol, and every other symbol, unchanged; from bids
\* [(100,1),(99,2)] and asks [(101,1)] the diff bids:[("100","0")] gives bids
\* [(99,2)] and asks [(101,1)].
C16_OneSidedDiff ==
    (viewOp.op = "orderbookHandler" /\ viewOp.msg.type = "channel_data") =>
       LET id == viewOp.msg.id
           old == viewBefore.orderbook
       IN  /\ \A symbol \in symbols \ {id} : orderbook[symbol] = old[symbol]
           /\ viewOp.msg.contents.asks = None => orderbook[id].asks = old[id].asks
           /\ viewOp.msg.contents.bids = None => orderbook[id].bids = old[id].bids
           /\ (old[id] = ScenarioBook /\ viewOp.msg = OneEntryDiff(id, "bids", "100", "0"))
                 => orderbook[id] = [bids |-> <<[price |-> 99, size |-> 2]>>,
                                     asks |-> <<[price |-> 101, size |-> 1]>>]

\* C16 witness: the scenario's diff has just been applied to the scenario's
\* snapshot.
C16_Witness ==
    /\ viewOp.op = "orderbookHandler"
    /\ viewOp.msg = OneEntryDiff(Symbol, "bids", "100", "0")
    /\ viewBefore.orderbook[Symbol] = ScenarioBook
    /\ orderbook[Symbol].bids = <<[price |-> 99, size |-> 2]>>

\* The prices a ledger holds, and the cumulative size it holds at a price.
LedgerPrices(ledger) == {ledger[i].price : i \in 1..Len(ledger)}

SizeAt(ledger, price) ==
    IF price \in LedgerPrices(ledger)
    THEN (CHOOSE level \in {ledger[i] : i \in 1..Len(ledger)} : level.price = price).size
    ELSE 0

OneFill(m) ==
    /\ m.type = "channel_data"
    /\ m.contents.fills # None
    /\ Len(m.contents.fills[1]) = 1

\* C17: a fill at a new price folded into a ledger of 200 distinct prices
\* evicts the oldest-inserted price and nothing else; a fill at a price the
\* ledger holds evicts nothing and leaves the eviction order as it was.
C17_EvictsOldestOnly ==
    (audit.op = "handler" /\ OneFill(audit.msg)) =>
       LET fill == audit.msg.contents.fills[1][1]
           old == audit.before.filledOrders
           new == acct.filledOrders
       IN  /\ (Len(old) = 200 /\ fill.price \notin LedgerPrices(old))
                 => new = Append(Tail(old), [price |-> fill.price,
                                             size |-> parseFloat(fill.size)])
           /\ fill.price \in LedgerPrices(old)
                 => /\ Len(new) = Len(old)
                    /\ \A i \in 1..Len(old) : new[i].price = old[i].price

\* C17 witness: the ledger held the 200 prices "1" to "200", a fill at "201"
\* has just been folded in, and "1" is gone.
C17_Witness ==
    /\ audit.op = "handler"
    /\ OneFill(audit.msg)
    /\ audit.msg.contents.fills[1][1].price = "201"
    /\ Len(audit.before.filledOrders) = 200
    /\ audit.before.filledOrders[1].price = "1"
    /\ Len(acct.filledOrders) = 200
    /\ acct.filledOrders[1].price = "2"
    /\ acct.filledOrders[200].price = "201"

\* C18: folding sizes a then b at one price gives the same ledger as folding
\* b then a, and the cumulative size at that price grows by a + b (sizes 1
\* and 2 at price 10 give 3).
C18_FoldCommutes ==
    \A price \in FoldPrices, a \in FoldSizes, b \in FoldSizes :
       LET ledger == acct.filledOrders
           ab == updateFillsFrom(ledger, <<[price |-> price, size |-> a],
                                           [price |-> price, size |-> b]>>, 1)
           ba == updateFillsFrom(ledger, <<[price |-> price, size |-> b],
                                           [price |-> price, size |-> a]>>, 1)
       IN  /\ ab = ba
           /\ SizeAt(ab, price) = SizeAt(ledger, price) + parseFloat(a) + parseFloat(b)

\* C18 witness: fills of sizes 1 and 2 at price 10 have been folded into the
\* empty ledger, which holds 3 at price 10.
C18_Witness ==
    /\ delivered = 2
    /\ audit.op = "handler"
    /\ OneFill(audit.msg)
    /\ audit.msg.contents.fills[1][1].price = "10"
    /\ audit.before.filledOrders \in {<<[price |-> "10", size |-> 1]>>,
                                      <<[price |-> "10", size |-> 2]>>}
    /\ acct.filledOrders = <<[price |-> "10", size |-> 3]>>

\* C19: right after a cleanup every entity of the view equals its
\* construction-time default: open orders, fill ledger, position and
\* collateral of the account view (as fields and in the tuple it hands out),
\* both ladder sides of every symbol, the market metadata of every symbol.
C19_CleanupRestoresDefaults ==
    /\ audit.op = "cleanup" =>
          /\ Entities(acct) = Entities(DefaultAcct)
          /\ acct.perpetualPosition.direction = "NONE"
          /\ \A f \in Fields \ {"longTermFill"} : Deref(acct, f) = DefaultOf(f)
    /\ viewOp.op = "cleanupOb" =>
          \A symbol \in symbols : orderbook[symbol] = [bids |-> <<>>, asks |-> <<>>]
    /\ viewOp.op = "cleanupMarkets" =>
          \A symbol \in symbols : tradeData[symbol] = defaultTradeData

\* C19 witness: the account view held orders, fills, a position or collateral
\* and cleanupAccount has just run.
C19_Witness ==
    /\ audit.op = "cleanup"
    /\ audit.before.openOrders # defaultOpenOrderProperties
    /\ audit.before.filledOrders # defaultFilledOrderProperties
    /\ audit.before.assetPosition # defaultCollateralProperties
    /\ Entities(acct) = Entities(DefaultAcct)

\* C20: no order held in either side bucket was last reported as filled,
\* cancelled or best-effort-cancelled.
C20_ClosedOrdersNotRetained ==
    \A bucket \in {acct.openOrders.bids, acct.openOrders.asks} :
       \A key \in DOMAIN bucket :
          key \in DOMAIN audit.reported => ~IsClosedStatus(audit.reported[key])

\* C21: the tuple returned by a handle() call keeps, component by component,
\* the values it had when the call returned, whatever a later handle() call
\* does.  A tuple is built by assignPosition, right before a call returns, and
\* a later call that is suspended in getPrice has not built a new one: the
\* tuple it found (all five references live) must still show, for each
\* component, what it showed before that call started.
C21_ReturnedTupleImmutable ==
    (/\ audit.op = "handler"
     /\ \A f \in Fields : audit.before.position[f].live
     /\ \E c \in calls : c.id = delivered /\ c.pc = "updPrice")
        => \A f \in Fields : Deref(acct, f) = Deref(audit.before, f)

(***************************************************************************)
(* Claims about the heartbeat, the rotation and the subscriptions, checked *)
(* under SpecSocket.                                                       *)
(***************************************************************************)

\* C22: while the connection is open a ping is sent at every heartbeat tick.
\* Pings are sent by the interval started when the handle opened and by
\* nothing else, so an open connection with no close handler left to replace
\* it must have that interval running, bound to it.
C22_HeartbeatWhileOpen ==
    (ws.readyState = "OPEN" /\ closers = EmptyBag) => pingInterval = "ws"

\* C23: once the handler of a connection's close has begun its backoff wait
\* or has reported the terminal state, no heartbeat interval and no rotation
\* timer armed for that connection (or for an earlier one) is pending.  The
\* statement is about the handlers whose connection is still the current
\* handle: after a later connect() a pending timer belongs to a newer handle.
C23_TimersCancelledOnClose ==
    \A c \in BagToSet(closers) :
        (c.cur /\ c.pc \in {"backoff", "fatal"})
            => pingInterval = "null" /\ reconnectTimeout = "null"

\* C23 witness: a connection that had opened, and so had both timers armed,
\* has closed and its handler is in the backoff wait.
C23_Witness ==
    /\ ws.readyState = "CLOSED"
    /\ \A ch \in subscriptions : ws.frames[ch] = 1
    /\ \E c \in BagToSet(closers) : c.cur /\ c.pc = "backoff"

\* C24: on every open of the connection, by run() or by a reconnect, exactly
\* one subscribe frame has been sent for each configured subscription, and
\* none before the open.
C24_SubscribedOnEveryOpen ==
    /\ ws.readyState = "OPEN" => \A ch \in subscriptions : ws.frames[ch] = 1
    /\ ws.readyState \in {"NULL", "CONNECTING"} =>
           \A ch \in subscriptions : ws.frames[ch] = 0
    /\ \A ch \in subscriptions : ws.frames[ch] <= 1

\* C24 witness: a connection opened by a reconnect attempt, with one frame
\* sent for every subscription.
C24_Witness ==
    /\ ws.readyState = "OPEN"
    /\ ws.by = "reconnect"
    /\ \A ch \in subscriptions : ws.frames[ch] = 1

\* C25: no connection stays open across a rotation deadline: an open
\* connection with no close handler left to replace it has its rotation timer
\* pending.
C25_RotationArmedWhileOpen ==
    (ws.readyState = "OPEN" /\ closers = EmptyBag) => reconnectTimeout = "armed"

(***************************************************************************)
(* Incremental position updates, with the fields of the feed that the      *)
(* local PnL derivation has to choose from.                                *)
(***************************************************************************)

\* A ChannelDataPerpetualPosition with its entry price and the optional
\* unrealizedPnl of the feed.
FeedPosition(market, side, size, entryPrice, unrealizedPnl) ==
    [market |-> market, status |-> "OPEN", side |-> side, size |-> size,
     entryPrice |-> entryPrice, exitPrice |-> None, realizedPnl |-> None,
     unrealizedPnl |-> unrealizedPnl, sumOpen |-> "2", sumClose |-> "1"]

PnlCloses == {"90", "110"}
PnlEntries == {"100", "90"}
PnlSizes == {"0", "-2", "10"}
PnlFeedValues == {None, Some("3")}

\* The position updates explored: every combination for the tracked symbol,
\* and one update for another market.
PnlUpdates ==
    {FeedPosition(Symbol, side, size, entryPrice, unrealizedPnl) :
        side \in {"LONG", "SHORT"}, size \in PnlSizes, entryPrice \in PnlEntries,
        unrealizedPnl \in PnlFeedValues}
    \cup {FeedPosition("BTC-USD", "LONG", "10", "100", Some("3"))}

\* A batch that carries one position update and nothing else arrives.
PositionUpdate ==
    /\ delivered < MaxDeliveries
    /\ \E position \in PnlUpdates :
          Handle(ChannelData(None, None, Some(<<position>>), None))

InitPnl ==
    /\ InitSocket
    /\ InitViews
    /\ indexerClient = FALSE
    /\ acct = DefaultAcct
    /\ calls = {}
    /\ delivered = 0
    /\ candle \in {Some(close) : close \in PnlCloses}
    /\ history = <<>>
    /\ outcome = [result |-> "none", dirty |-> FALSE]
    /\ seqView = DefaultAcct
    /\ cleaned = FALSE
    /\ audit = [op |-> "none", msg |-> [type |-> "none"], before |-> DefaultAcct,
                reported |-> EmptyMap]

NextPnl ==
    \/ InitializeClient
    \/ PositionUpdate
    \/ PriceResolved

SpecPnl == InitPnl /\ [][NextPnl]_vars

\* Exact arithmetic on fractions, for the expected values.
Times(a, b) == Frac(a.n * b.n, a.d * b.d)
Minus(a, b) == Frac(a.n * b.d - b.n * a.d, a.d * b.d)

\* (priceRatio x notional) - notional
ExpectedPnl(direction, entry, current, notional) ==
    LET priceRatio == IF direction = "LONG" THEN Frac(current, entry)
                      ELSE Frac(entry, current)
    IN  Minus(Times(priceRatio, Frac(notional, 1)), Frac(notional, 1))

\* C26: after incremental position updates for the tracked symbol, unrealized
\* PnL is (priceRatio x notional) - notional, with priceRatio current/entry
\* for a long and entry/current for a short position and notional the
\* absolute base size times the reference price, whatever unrealized PnL the
\* feed supplied; entry 100, current 110, notional 1000, long gives 100, and
\* entry 100, current 90, notional 1000, short gives 1000/9 (111.11).
C26_PnlRecomputed ==
    /\ LET pp == acct.perpetualPosition
           notional == pp.positionSizeUsd
           current == IF pp.positionSizeBase = 0 THEN 1
                      ELSE notional \div pp.positionSizeBase
       IN  pp.direction \in {"LONG", "SHORT"} =>
              /\ pp.symbol = Symbol
              /\ notional = pp.positionSizeBase * current
              /\ current \in {1} \cup {parseFloat(close) : close \in PnlCloses}
              /\ pp.unrealizedPnl =
                     ExpectedPnl(pp.direction, pp.averageEntry, current, notional)
    /\ \A unrealizedPnl \in PnlFeedValues :
          /\ handleUndefinedPnl(
                 [defaultPositionProperties EXCEPT !.positionSizeUsd = 1000],
                 FeedPosition(Symbol, "LONG", "10", "100", unrealizedPnl),
                 110).unrealizedPnl = Frac(100, 1)
          /\ handleUndefinedPnl(
                 [defaultPositionProperties EXCEPT !.positionSizeUsd = 1000],
                 FeedPosition(Symbol, "SHORT", "-10", "100", unrealizedPnl),
                 90).unrealizedPnl = Frac(1000, 9)

\* C26 witness: an update that carried an unrealized PnL of 3 for a long
\* position of size 10 entered at 100 has been applied at a price of 110: the
\* notional is 1100 and the unrealized PnL 110.
C26_Witness ==
    /\ calls = {}
    /\ delivered = 1
    /\ outcome.result = "ok"
    /\ audit.msg.contents.perpetualPositions[1][1].unrealizedPnl = Some("3")
    /\ acct.perpetualPosition.direction = "LONG"
    /\ acct.perpetualPosition.averageEntry = 100
    /\ acct.perpetualPosition.positionSizeUsd = 1100
    /\ acct.perpetualPosition.unrealizedPnl = Frac(110, 1)

(***************************************************************************)
(* Claims about the orders of the account view, checked under SpecAccount. *)
(***************************************************************************)

\* The bucket a snapshot's order list describes for one side: the orders of
\* that side whose status is open or best-effort-open, under their client
\* ids, a later entry for a client id replacing an earlier one.
SnapshotBucket(orders, side) ==
    LET kept == {i \in 1..Len(orders) :
                    orders[i].side = side /\ IsOpenStatus(orders[i].status)}
        last(key) == CHOOSE i \in kept :
                        /\ orders[i].clientId = key
                        /\ \A j \in kept : orders[j].clientId = key => j <= i
    IN  [key \in {orders[i].clientId : i \in kept} |->
            generateOrderDict(orders[last(key)])]

\* C27: right after an account snapshot is handled the open-orders view holds
\* exactly the snapshot's open and best-effort-open orders, each in the
\* bucket of its side under its client id, and nothing from before the
\* snapshot.
C27_SnapshotReplacesOrders ==
    (audit.op = "handler" /\ audit.msg.type = "subscribed") =>
        /\ acct.openOrders.bids = SnapshotBucket(audit.msg.contents.orders, "BUY")
        /\ acct.openOrders.asks = SnapshotBucket(audit.msg.contents.orders, "SELL")

(***************************************************************************)
(* Order batches on a view that already holds orders.                      *)
(***************************************************************************)

\* The snapshot the views below have handled: order 1 with an expiry, order 2
\* without one.
StartSnapshot ==
    Subscribed(<<Order("1", "BUY", "OPEN", Some("1970-01-01T00:01:00.500Z")),
                 Order("2", "SELL", "BEST_EFFORT_OPENED", None)>>,
               EmptyMap, CollateralSymbol :> Asset("300"))

\* The views the batches start from: the constructor's, and the view after
\* StartSnapshot.
OrderStarts ==
    {DefaultAcct, handlerWhole(DefaultAcct, StartSnapshot, FALSE, None, <<>>).v}

OrderMessages ==
    { Subscribed(<<Order("4", "BUY", "BEST_EFFORT_OPENED",
                         Some("1970-01-01T00:02:00.000Z")),
                   Order("5", "SELL", "OPEN", None)>>,
                 EmptyMap, CollateralSymbol :> Asset("300")),
      ChannelData(Some(<<Order("1", "BUY", "FILLED", None),
                         Order("2", "SELL", "CANCELED", None)>>),
                  None, None, None),
      ChannelData(Some(<<Order("1", "BUY", "BEST_EFFORT_CANCELED", None)>>),
                  None,
                  Some(<<ChannelDataPerpetualPosition(Symbol, "SHORT", "-2")>>),
                  None),
      ChannelData(Some(<<Order("3", "BUY", "BEST_EFFORT_OPENED",
                               Some("1970-01-01T00:02:00.000Z")),
                         Order("2", "SELL", "OPEN",
                               Some("1970-01-01T00:01:00.500Z"))>>),
                  None, None, None),
      ChannelData(Some(<<Order("3", "BUY", "OPEN", None),
                         Order("3", "BUY", "CANCELED", None)>>),
                  None, None, None),
      ChannelData(None, None,
                  Some(<<ChannelDataPerpetualPosition(Symbol, "SHORT", "-2")>>),
                  None) }

\* A message about orders arrives.
DeliverOrders ==
    /\ delivered < MaxDeliveries
    /\ \E m \in OrderMessages : Handle(m)

InitOrders ==
    /\ InitSocket
    /\ InitViews
    /\ indexerClient = FALSE
    /\ acct \in OrderStarts
    /\ calls = {}
    /\ delivered = 0
    /\ candle = Some("100")
    /\ history = <<>>
    /\ outcome = [result |-> "none", dirty |-> FALSE]
    /\ seqView = acct
    /\ cleaned = FALSE
    /\ audit = [op |-> "none", msg |-> [type |-> "none"], before |-> acct,
                reported |-> IF acct = DefaultAcct THEN EmptyMap
                             ELSE Reported(EmptyMap, StartSnapshot)]

NextOrders ==
    \/ InitializeClient
    \/ DeliverOrders
    \/ PriceResolved

SpecOrders == InitOrders /\ [][NextOrders]_vars

\* The order entries of a message.
OrdersOf(m) ==
    CASE m.type = "subscribed" -> m.contents.orders
      [] m.type = "channel_data" /\ m.contents.orders # None -> m.contents.orders[1]
      [] OTHER -> <<>>

BucketOf(side) == IF side = "BUY" THEN "bids" ELSE "asks"

\* Entry i is the last word of its message on its client id and side.
LastWord(orders, i) ==
    \A j \in (i + 1)..Len(orders) :
        ~(orders[j].clientId = orders[i].clientId /\ orders[j].side = orders[i].side)

\* C28: an order stored by a snapshot or by an incremental upsert, whether
\* its status is open or best-effort-open, is tagged long-lived exactly when
\* it carries an expiry timestamp, and the expiry is recorded exactly then.
C28_LongLivedIffExpiry ==
    audit.op = "handler" =>
        LET orders == OrdersOf(audit.msg)
        IN  \A i \in 1..Len(orders) :
               (IsOpenStatus(orders[i].status) /\ LastWord(orders, i)) =>
                  LET bucket == acct.openOrders[BucketOf(orders[i].side)]
                      key == orders[i].clientId
                  IN  /\ key \in DOMAIN bucket
                      /\ bucket[key].longTermFill = (orders[i].goodTilBlockTime # None)
                      /\ (bucket[key].goodTilTime # None)
                            = (orders[i].goodTilBlockTime # None)

\* The flags a batch has to report, given the buckets it finds: one per
\* entry of closed status whose client id is held at that point, in order.
RECURSIVE ExpectedFlags(_, _, _)
ExpectedFlags(oo, orders, i) ==
    IF i > Len(orders) THEN <<>>
    ELSE LET o == orders[i]
             b == BucketOf(o.side)
         IN  IF IsClosedStatus(o.status) /\ o.clientId \in DOMAIN oo[b]
             THEN <<oo[b][o.clientId].longTermFill>>
                      \o ExpectedFlags([oo EXCEPT ![b] = Del(@, o.clientId)], orders, i + 1)
             ELSE IF IsOpenStatus(o.status)
             THEN ExpectedFlags([oo EXCEPT ![b] = Put(@, o.clientId, generateOrderDict(o))],
                                orders, i + 1)
             ELSE ExpectedFlags(oo, orders, i + 1)

\* C29: the flag list in the tuple an incremental batch's handle() call
\* returns holds exactly one entry per order that batch removed, equal to the
\* removed order's long-lived flag, in removal order, and nothing else; this
\* for a call that returns without waiting and for a call that returns after
\* its price lookup.
C29_FlagsOfThisBatch ==
    /\ []((/\ audit.op = "handler"
           /\ audit.msg.type = "channel_data"
           /\ outcome.result = "ok"
           /\ \A c \in calls : c.id # delivered)
              => Deref(acct, "longTermFill")
                     = ExpectedFlags(audit.before.openOrders, OrdersOf(audit.msg), 1))
    /\ [][\A c \in calls :
             (/\ c.msg.type = "channel_data"
              /\ \A c2 \in calls' : c2.id # c.id
              /\ outcome'.result = "ok")
                 => Deref(acct', "longTermFill")
                        = ExpectedFlags(c.before.openOrders, OrdersOf(c.msg), 1)]_vars

(***************************************************************************)
(* Claims about order-book snapshots, checked under SpecViews.             *)
(***************************************************************************)

\* Level k is strictly better than level l on a side.
Better(k, l, bookSide) ==
    IF bookSide = "bids" THEN k.price > l.price ELSE k.price < l.price

\* The side a snapshot describes: its levels as numbers, best first, each at
\* the position given by the number of better levels, up to 20 of them.
SnapshotSide(levels, bookSide) ==
    LET P == {[price |-> parseFloat(levels[i].price),
               size |-> parseFloat(levels[i].size)] : i \in 1..Len(levels)}
        n == IF Cardinality(P) < 20 THEN Cardinality(P) ELSE 20
    IN  [i \in 1..n |->
            CHOOSE l \in P : Cardinality({k \in P : Better(k, l, bookSide)}) = i - 1]

\* C30: right after an order-book snapshot is handled, each side of its
\* symbol is the snapshot's levels for that side sorted (bids descending,
\* asks ascending) and cut to the best 20, whatever the side held before.
C30_SnapshotReplacesSides ==
    (viewOp.op = "orderbookHandler" /\ viewOp.msg \in BookSnapshots) =>
        \A bookSide \in Sides :
            orderbook[viewOp.msg.id][bookSide]
                = SnapshotSide(viewOp.msg.contents[bookSide][1], bookSide)

\* C30 witness: the bid side held the levels 100 and 99, a snapshot of 21
\* bids (2, 4, ..., 42, listed ascending) has just been handled, and the
\* side holds 42 down to 4 and neither 100 nor 99.
C30_Witness ==
    /\ viewOp.op = "orderbookHandler"
    /\ viewOp.msg = InitOrderbook(Symbol, LongSide(0, 2), LongSide(94, 0 - 2))
    /\ viewBefore.orderbook[Symbol].bids
           = <<[price |-> 100, size |-> 1], [price |-> 99, size |-> 2]>>
    /\ Len(orderbook[Symbol].bids) = 20
    /\ orderbook[Symbol].bids[1].price = 42
    /\ orderbook[Symbol].bids[20].price = 4
    /\ \A i \in 1..20 : orderbook[Symbol].bids[i].price \notin {99, 100}

(***************************************************************************)
(* Claims about the sizes held in the ladders, checked under SpecViews.    *)
(***************************************************************************)

\* C31: after any sequence of snapshots, diffs and maintenance runs every
\* level held in a ladder has a size greater than 0.
C31_SizesPositive ==
    \A symbol \in symbols, bookSide \in Sides :
        \A i \in 1..Len(orderbook[symbol][bookSide]) :
            orderbook[symbol][bookSide][i].size > 0

(***************************************************************************)
(* Live fills and historical seeding on ledgers near the bound.            *)
(***************************************************************************)

\* What the historical source returns here: a recent fill at a price no
\* prepared ledger holds, a recent one at a price they hold, an old one.
SeedHistory ==
    <<[price |-> "201", size |-> "1", age |-> 60000],
      [price |-> "10", size |-> "3", age |-> 60000],
      [price |-> "202", size |-> "1", age |-> 7200000]>>

\* A (re)subscribe snapshot that reports an open position.
SeedSnapshot ==
    Subscribed(<<>>, Symbol :> InitPerpetualPosition(Symbol, "LONG", "2"),
               CollateralSymbol :> Asset("500"))

\* The snapshot arrives.
DeliverSeedSnapshot ==
    /\ delivered < MaxFolds
    /\ Handle(SeedSnapshot)

InitSeed ==
    /\ InitSocket
    /\ InitViews
    /\ indexerClient = TRUE
    /\ acct \in LedgerStarts
    /\ calls = {}
    /\ delivered = 0
    /\ candle = Some("100")
    /\ history = SeedHistory
    /\ outcome = [result |-> "none", dirty |-> FALSE]
    /\ seqView = acct
    /\ cleaned = FALSE
    /\ audit = [op |-> "none", msg |-> [type |-> "none"], before |-> acct,
                reported |-> EmptyMap]

NextSeed ==
    \/ FoldFill
    \/ DeliverSeedSnapshot
    \/ PriceResolved
    \/ FillsResolved

SpecSeed == InitSeed /\ [][NextSeed]_vars

\* C32: after any sequence of live fills and historical seeding the fill
\* ledger holds at most 200 prices, each of them once.
C32_LedgerBounded ==
    /\ Len(acct.filledOrders) <= 200
    /\ Cardinality(LedgerPrices(acct.filledOrders)) = Len(acct.filledOrders)

\* C32 witness: a ledger of the 200 prices "1" to "200" has been seeded from
\* the history, whose fill at the new price 201 is now its newest entry.
C32_Witness ==
    /\ audit.op = "resume"
    /\ Len(audit.before.filledOrders) = 200
    /\ "201" \notin LedgerPrices(audit.before.filledOrders)
    /\ Len(acct.filledOrders) = 200
    /\ acct.filledOrders[200].price = "201"
    /\ acct.filledOrders[1].price = "2"

(***************************************************************************)
(* Claims about the historical seeding, checked under SpecAccount.         *)
(***************************************************************************)

\* The snapshot reports an open position for the tracked symbol.
ReportsOpenPosition(m) ==
    LET positions == m.contents.subaccount.openPerpetualPositions
    IN  /\ Symbol \in DOMAIN positions
        /\ positions[Symbol].status = "OPEN"
        /\ parseFloat(positions[Symbol].size) # 0

\* The fills of a history that are younger than one hour, in order.
Recent(fills) == SelectSeq(fills, LAMBDA fill : fill.age < 3600000)

\* C33: historical fills are pulled for a snapshot only when that snapshot
\* reports an open position for the tracked symbol, and what a completed
\* pull adds to the ledger is the fills younger than one hour and no other.
C33_SeedOnlyWithOpenPosition ==
    /\ \A c \in calls : c.pc = "initFills" => ReportsOpenPosition(c.msg)
    /\ (audit.op = "resume" /\ acct.filledOrders # audit.before.filledOrders)
          => acct.filledOrders
                 = updateFillsFrom(audit.before.filledOrders, Recent(history), 1)


(***************************************************************************)
(* Collateral: snapshots and batches that differ in what they say about    *)
(* the asset balances                                                      *)
(***************************************************************************)

\* An entry of an asset-position list or map for some asset.
AssetOf(symbol, size) == [symbol |-> symbol, size |-> size]

\* The assetPositions a batch may carry: none, the collateral asset alone,
\* or the collateral asset next to another asset, in either order.
CollateralUpdates ==
    { None,
      Some(<<Asset("400")>>),
      Some(<<Asset("200")>>),
      Some(<<Asset("400"), AssetOf("BTC", "1")>>),
      Some(<<AssetOf("BTC", "1"), Asset("400")>>) }

\* The assetPositions a snapshot may carry.
CollateralSnapshots ==
    { CollateralSymbol :> Asset("300"),
      (CollateralSymbol :> Asset("500")) @@ ("BTC" :> AssetOf("BTC", "1")) }

CollateralMessages ==
    { [type |-> "connected"] }
    \cup {Subscribed(<<>>, EmptyMap, assets) : assets \in CollateralSnapshots}
    \cup {Subscribed(<<>>, Symbol :> InitPerpetualPosition(Symbol, "LONG", "2"), assets) :
             assets \in CollateralSnapshots}
    \cup {ChannelData(None, Some(<<[price |-> "10", size |-> "1"]>>), None, assets) :
             assets \in CollateralUpdates}
    \cup {ChannelData(None, None,
                      Some(<<ChannelDataPerpetualPosition(Symbol, "SHORT", "-2")>>),
                      assets) : assets \in CollateralUpdates}

\* One of these messages arrives.
DeliverCollateral ==
    /\ delivered < MaxDeliveries
    /\ \E m \in CollateralMessages : Handle(m)

InitCollateral ==
    /\ InitSocket
    /\ InitViews
    /\ indexerClient = FALSE
    /\ acct = DefaultAcct
    /\ calls = {}
    /\ delivered = 0
    /\ candle = Some("100")
    /\ history = <<>>
    /\ outcome = [result |-> "none", dirty |-> FALSE]
    /\ seqView = DefaultAcct
    /\ cleaned = FALSE
    /\ audit = [op |-> "none", msg |-> [type |-> "none"], before |-> DefaultAcct,
                reported |-> EmptyMap]

NextCollateral ==
    \/ InitializeClient
    \/ DeliverCollateral
    \/ PriceResolved
    \/ FillsResolved

SpecCollateral == InitCollateral /\ [][NextCollateral]_vars

\* The balance of the configured collateral asset that message m gives, if
\* it gives one.
RECURSIVE BalanceIn(_, _)
BalanceIn(assets, i) ==
    IF i > Len(assets) THEN None
    ELSE IF assets[i].symbol = CollateralSymbol
         THEN Some([symbol |-> assets[i].symbol, size |-> parseFloat(assets[i].size)])
         ELSE BalanceIn(assets, i + 1)

GivenCollateral(m) ==
    CASE m.type = "subscribed" ->
             LET assets == m.contents.subaccount.assetPositions
             IN  IF CollateralSymbol \in DOMAIN assets
                 THEN Some([symbol |-> assets[CollateralSymbol].symbol,
                            size |-> parseFloat(assets[CollateralSymbol].size)])
                 ELSE None
      [] m.type = "channel_data" /\ m.contents.assetPositions # None ->
             BalanceIn(m.contents.assetPositions[1], 1)
      [] OTHER -> None

\* The collateral a call for message m must leave when the collateral was
\* held when the call's last piece began.
CollateralAfter(held, m) ==
    IF GivenCollateral(m) = None THEN held ELSE GivenCollateral(m)[1]

\* C34: when a call of handler returns, the collateral held is the balance
\* of the configured collateral asset that the call's message gives (symbol
\* and size), and it is the collateral held before when the message gives
\* none.
C34_CollateralFromMessage ==
    /\ []((/\ audit.op = "handler"
           /\ outcome.result = "ok"
           /\ \A c \in calls : c.id # delivered)
              => acct.assetPosition = CollateralAfter(audit.before.assetPosition, audit.msg))
    /\ [][\A c \in calls :
             (/\ \A c2 \in calls' : c2.id # c.id
              /\ outcome'.result = "ok")
                 => acct'.assetPosition = CollateralAfter(acct.assetPosition, c.msg)]_vars


(***************************************************************************)
(* C35: the markets view under incremental messages                        *)
(***************************************************************************)

\* C35: a call of the markets handler with a channel_data message leaves the
\* metadata of every symbol (precision, tick and step strings, minimum
\* size) as it was, and the metadata changes only in a call with a snapshot
\* or in cleanupMarkets.
C35_ChannelDataKeepsMarkets ==
    /\ (viewOp.op = "marketsHandler" /\ viewOp.msg.type = "channel_data")
          => tradeData = viewBefore.tradeData
    /\ tradeData # viewBefore.tradeData
          => \/ viewOp.op = "cleanupMarkets"
             \/ viewOp.op = "marketsHandler" /\ viewOp.msg.type = "subscribed"

\* An incremental message that names other tick and step sizes for the
\* tracked symbol than the ones held has been handled.
C35_Witness ==
    /\ viewOp.op = "marketsHandler"
    /\ viewOp.msg.type = "channel_data"
    /\ Symbol \in DOMAIN viewOp.msg.contents.trading
    /\ viewBefore.tradeData[Symbol] # defaultTradeData
    /\ updateTradeDataForSymbol(viewOp.msg.contents.trading[Symbol])
           # viewBefore.tradeData[Symbol]
    /\ tradeData = viewBefore.tradeData


(***************************************************************************)
(* C36: a call that is suspended across cleanupAccount                     *)
(***************************************************************************)

\* The size of the tracked position that message m reports last, if any.
ReportedSize(m) ==
    IF m.type = "subscribed"
    THEN LET positions == m.contents.subaccount.openPerpetualPositions
         IN  IF Symbol \in DOMAIN positions /\ positions[Symbol].status = "OPEN"
             THEN Some(Abs(parseFloat(positions[Symbol].size))) ELSE None
    ELSE LET positions == m.contents.perpetualPositions[1]
         IN  IF positions[Len(positions)].market = Symbol
             THEN Some(Abs(parseFloat(positions[Len(positions)].size))) ELSE None

\* C36: a call that was suspended when cleanupAccount ran and that resumes
\* right after it writes its result into the reset view: the fetched fills
\* of the last hour are folded into the empty ledger, and a resolved price
\* lookup stores the position of the call's message.
C36_StaleResultWritten ==
    [][\A c \in calls :
          (audit.op = "cleanup" /\ audit'.op = "resume" /\ c \notin calls')
             => /\ c.pc = "initFills"
                   => acct'.filledOrders
                          = updateFillsFrom(defaultFilledOrderProperties,
                                            Recent(history), 1)
                /\ (c.pc \in {"initPrice", "updPrice"} /\ candle # None
                    /\ ReportedSize(c.msg) # None)
                   => acct'.perpetualPosition.positionSizeBase
                          = ReportedSize(c.msg)[1]]_vars

\* The race: one message only was ever handled, a snapshot with an order
\* and an open position; cleanupAccount ran while its call waited for the
\* historical fills (the order it had stored is gone), and the fills that
\* arrived afterwards are in the ledger of the reset view.
C36_Witness ==
    /\ cleaned
    /\ delivered = 1
    /\ calls = {}
    /\ audit.op = "resume"
    /\ audit.msg.type = "subscribed"
    /\ audit.msg.contents.orders # <<>>
    /\ acct.openOrders = defaultOpenOrderProperties
    /\ acct.perpetualPosition = defaultPositionProperties
    /\ audit.before.filledOrders = defaultFilledOrderProperties
    /\ acct.filledOrders # defaultFilledOrderProperties


(***************************************************************************)
(* C37: the ladder against the full book of the feed                       *)
(***************************************************************************)

\* The snapshots and diffs of the tracked symbol.
FeedMessages == {obj \in BookSnapshots \cup BookDiffs : obj.id = Symbol}

\* A snapshot or a diff of the tracked symbol arrives.
FeedBook ==
    /\ \E obj \in FeedMessages :
          /\ orderbook' = orderbookHandler(orderbook, obj)
          /\ feedBook' = FeedAfter(feedBook, obj)
          /\ Record("orderbookHandler", obj, "", "")
    /\ UNCHANGED <<sockVars, acctVars, tradeData>>

NextFeed == FeedBook

SpecFeed == InitQuiet /\ [][NextFeed]_vars

\* The best k levels of a set of levels, best first.
RECURSIVE BestOf(_, _, _)
BestOf(levels, bookSide, k) ==
    IF k = 0 \/ levels = {} THEN <<>>
    ELSE LET top == CHOOSE x \in levels :
                        \A y \in levels : IF bookSide = "bids"
                                          THEN x.price >= y.price
                                          ELSE x.price <= y.price
         IN  <<top>> \o BestOf(levels \ {top}, bookSide, k - 1)

\* C37: after a snapshot followed by diffs, each side of the ladder is the
\* best min(20, n) levels of the full book that these messages describe.
C37_LadderIsBestOfFeed ==
    \A symbol \in symbols, bookSide \in Sides :
        feedBook[symbol].synced
            => orderbook[symbol][bookSide]
                   = BestOf(feedBook[symbol][bookSide], bookSide, OrderbookLength)


(***************************************************************************)
(* C38: a close whose teardown hook throws                                 *)
(***************************************************************************)

\* C38: every 'close' event of the current handle, whether the teardown
\* hook returns or throws, starts onClose: a close handler of this handle is
\* added that goes on to cancel the timers and, below the cap, to reconnect.
C38_CloseStartsOnClose ==
    [][(ws.readyState \in {"CONNECTING", "OPEN", "CLOSING"}
        /\ ws'.readyState = "CLOSED")
          => \E c \in BagToSet(closers') :
                /\ c.cur
                /\ c.pc = "notify"
                /\ c.trail[Len(c.trail)] = "onClose"
                /\ CopiesIn(c, closers') = CopiesIn(c, closers) + 1]_vars


(***************************************************************************)
(* One session: a snapshot, then batches, each fill delivered live at most *)
(* once, while the historical fills may contain the same fills             *)
(***************************************************************************)

\* A fill of the session.  The handler reads price and size only; the id
\* tells two reports of one fill from two fills.
SessionFill(id, price, size) == [id |-> id, price |-> price, size |-> size]

SessionFills ==
    { SessionFill("f1", "10", "1"),
      SessionFill("f2", "20", "1"),
      SessionFill("f3", "201", "1") }

FillOf(id) == CHOOSE fill \in SessionFills : fill.id = id

\* The entry of getSubaccountFills' result for a fill, created age ms ago.
Fetched(fill, age) ==
    [id |-> fill.id, price |-> fill.price, size |-> fill.size, age |-> age]

\* What the fetch may return: nothing, fills of the session, or a fill from
\* before the lookback.
SessionHistories ==
    { <<>>,
      <<Fetched(FillOf("f1"), 60000)>>,
      <<Fetched(FillOf("f2"), 60000), Fetched(FillOf("f1"), 60000)>>,
      <<Fetched(SessionFill("f0", "202", "1"), 7200000)>> }

\* The messages that may arrive as the n-th message of the session.
SessionScript(n) ==
    CASE n = 1 -> {SeedSnapshot,
                   Subscribed(<<>>, EmptyMap, CollateralSymbol :> Asset("300"))}
      [] n = 2 -> {FillBatch(<<FillOf("f1")>>),
                   FillBatch(<<FillOf("f1"), FillOf("f2")>>),
                   ChannelData(None, None, None, Some(<<Asset("400")>>))}
      [] n = 3 -> {FillBatch(<<FillOf("f3")>>),
                   ChannelData(None, None, None, Some(<<Asset("200")>>))}
      [] OTHER -> {ChannelData(None, None, None, Some(<<Asset("200")>>))}

\* The next message of the session arrives.
DeliverSession ==
    /\ delivered < MaxDeliveries
    /\ \E m \in SessionScript(delivered + 1) : Handle(m)

InitSession ==
    /\ InitSocket
    /\ InitViews
    /\ indexerClient = FALSE
    /\ acct = DefaultAcct
    /\ calls = {}
    /\ delivered = 0
    /\ candle \in Candles
    /\ history \in SessionHistories
    /\ outcome = [result |-> "none", dirty |-> FALSE]
    /\ seqView = DefaultAcct
    /\ cleaned = FALSE
    /\ audit = [op |-> "none", msg |-> [type |-> "none"], before |-> DefaultAcct,
                reported |-> EmptyMap]

NextSession ==
    \/ InitializeClient
    \/ DeliverSession
    \/ PriceResolved
    \/ FillsResolved

SpecSession == InitSession /\ [][NextSession]_vars

\* The total size of a set of fills.
RECURSIVE TotalSize(_)
TotalSize(fills) ==
    IF fills = {} THEN 0
    ELSE LET fill == CHOOSE x \in fills : TRUE
         IN  parseFloat(fill.size) + TotalSize(fills \ {fill})

\* C39: each fill of the session counts at most once: the cumulative size
\* that the ledger holds at a price is at most the total size of the
\* session's fills at that price.
C39_FillCountedOnce ==
    \A i \in 1..Len(acct.filledOrders) :
        acct.filledOrders[i].size
            <= TotalSize({fill \in SessionFills :
                             fill.price = acct.filledOrders[i].price})


(***************************************************************************)
(* Orders across a teardown: batches, cleanupAccount, and the messages of  *)
(* the next session                                                        *)
(***************************************************************************)

\* A message about orders, or the first message of a connection, arrives.
DeliverTeardown ==
    /\ delivered < MaxDeliveries
    /\ \E m \in OrderMessages \cup {[type |-> "connected"]} : Handle(m)

NextTeardown ==
    \/ InitializeClient
    \/ DeliverTeardown
    \/ PriceResolved
    \/ CleanupAccount

SpecTeardown == InitOrders /\ [][NextTeardown]_vars

\* The tuple that cleanupAccount leaves.
FreshTuple == [f \in Fields |-> FrozenRef(DefaultOf(f))]

\* C40: when cleanupAccount has run and the next call of handler, for a
\* snapshot or a connected message, returns, the flag list of the returned
\* tuple holds nothing of the batches before the cleanup: it is empty or
\* the constructor's list.
C40_NoFlagsAcrossCleanup ==
    (/\ cleaned
     /\ audit.op = "handler"
     /\ audit.msg.type \in {"subscribed", "connected"}
     /\ audit.before.position = FreshTuple
     /\ outcome.result = "ok"
     /\ \A c \in calls : c.id # delivered)
        => Deref(acct, "longTermFill") \in {<<>>, DefaultOf("longTermFill")}

====
